---- MODULE Spec2Model ----
(***************************************************************************)
(* Model of the Traefik maintenance middleware (maintenance.go): the       *)
(* construction of the handler by New, the per-request dispatch of         *)
(* ServeHTTP between the next handler and the three maintenance responders *)
(* (file, inline content, reverse proxy), the file cache, and the          *)
(* status-overriding response writer.                                      *)
(*                                                                         *)
(* Strings are Go strings, a []byte is a string, a nil []byte is Nil.      *)
(* Times are naturals, 0 being the zero time.Time.                         *)
(***************************************************************************)
EXTENDS Integers, Sequences, FiniteSets, TLC

VARIABLES
    cfg,        \* the *Config handed to New
    phase,      \* "config" before New, "serving" after a successful New, "failed" after New returned an error
    newErr,     \* the error returned by New ("" is nil)
    m,          \* the MaintenanceBypass instance
    fs,         \* the file at cfg.MaintenanceFilePath as the operating system holds it
    backend,    \* what a round trip to the maintenance service yields at present
    orig,       \* the request as the host held it before the ServeHTTP call that has just returned
    ex,         \* the record of that call (response writer, request object, calls made)
    wr,         \* a maintenanceResponseWriter driven call by call
    hist,       \* the calls made on wr so far
    loads,      \* the loadMaintenanceFile calls made since the file was last modified
    pc,         \* where each concurrent request stands inside serveMaintenanceFile
    loc,        \* the local variables of each concurrent request
    mutex,      \* m.fileMutex: the holder of the write lock and the holders of read locks
    written,    \* the contents the maintenance file has held so far
    px          \* one request inside proxyToMaintenanceService, step by step

vars == <<cfg, phase, newErr, m, fs, backend, orig, ex,
          wr, hist, loads, pc, loc, mutex, written, px>>

writerVars == <<wr, hist>>
concVars == <<pc, loc, mutex, written>>

(***************************************************************************)
(* Bounds of the model.                                                    *)
(***************************************************************************)
MaxModTime == 2
\* the longest sequence of calls made on one maintenanceResponseWriter
MaxCalls == 3
\* the most loadMaintenanceFile calls followed between two modifications of the file
MaxLoads == 2
\* the most body chunks the maintenance service sends in one response
MaxChunks == 2

(***************************************************************************)
(* Go library primitives used by the code.                                 *)
(***************************************************************************)
Nil == <<>>
Bytes(s) == <<s>>

HasPrefix(s, prefix) ==
    Len(s) >= Len(prefix) /\ SubSeq(s, 1, Len(prefix)) = prefix

HasSuffix(s, suffix) ==
    Len(s) >= Len(suffix) /\ SubSeq(s, Len(s) - Len(suffix) + 1, Len(s)) = suffix

\* textproto.CanonicalMIMEHeaderKey on the header names of the model
CanonicalMIMEHeaderKey(k) ==
    CASE k = "x-maintenance-bypass" -> "X-Maintenance-Bypass"
      [] k = "retry-after" -> "Retry-After"
      [] OTHER -> k

HeaderKeys ==
    {"Retry-After", "X-Maintenance-Mode", "Content-Type", "Cache-Control",
     "X-Content-Type-Options", "X-Maintenance-Bypass", "X-Test-Header"}

EmptyHeader == [k \in HeaderKeys |-> <<>>]

\* http.Header.Get: the first value stored under the canonical key, "" if none
HeaderGet(h, key) ==
    LET k == CanonicalMIMEHeaderKey(key)
    IN IF k \in DOMAIN h /\ Len(h[k]) > 0 THEN h[k][1] ELSE ""

\* http.Header.Set: replaces the values stored under the canonical key
HeaderSet(h, key, value) ==
    [h EXCEPT ![CanonicalMIMEHeaderKey(key)] = <<value>>]

\* http.Header.Add: appends to the values stored under the canonical key
HeaderAdd(h, key, value) ==
    [h EXCEPT ![CanonicalMIMEHeaderKey(key)] = Append(@, value)]

(***************************************************************************)
(* http.ResponseWriter as the server (and httptest.ResponseRecorder)       *)
(* implements it: the first WriteHeader commits the status line together   *)
(* with a snapshot of the header map, later ones are ignored; a Write      *)
(* before any WriteHeader commits 200.                                     *)
(***************************************************************************)
NewRecorder ==
    [header |-> EmptyHeader, code |-> 0, sent |-> EmptyHeader,
     body |-> <<>>, commits |-> 0, calls |-> <<>>]

RwHeaderSet(rw, key, value) == [rw EXCEPT !.header = HeaderSet(@, key, value)]

\* the status line is committed unless it already was
RwCommit(rw, code) ==
    IF rw.code # 0 THEN rw
    ELSE [rw EXCEPT !.code = code, !.sent = rw.header, !.commits = @ + 1]

\* calls records the WriteHeader and Write calls the writer receives
RwWriteHeader(rw, code) ==
    RwCommit([rw EXCEPT !.calls = Append(@, <<"WriteHeader", code>>)], code)

RwWrite(rw, b) ==
    LET w == RwCommit([rw EXCEPT !.calls = Append(@, <<"Write", b>>)], 200)
    IN [w EXCEPT !.body = Append(@, b)]

\* http.Error
HttpError(rw, error, code) ==
    LET h1 == HeaderSet(rw.header, "Content-Type", "text/plain; charset=utf-8")
        h2 == HeaderSet(h1, "X-Content-Type-Options", "nosniff")
        w  == RwWriteHeader([rw EXCEPT !.header = h2], code)
    IN RwWrite(w, error \o "\n")

(***************************************************************************)
(* The file system and net/url, as far as the code uses them.              *)
(***************************************************************************)
\* fs.kind is "missing", "dir", "file" or "unreadable" (a file the process
\* may stat but not read)
\* os.Stat: fails on a missing path, succeeds on a file or a directory
Stat(f) ==
    IF f.kind = "missing"
    THEN [err |-> "no such file or directory", modTime |-> 0]
    ELSE [err |-> "", modTime |-> f.modTime]

\* ioutil.ReadFile: fails on a missing path, on a directory and on a file
\* the process has no permission to read
ReadFile(f) ==
    CASE f.kind = "missing"    -> [err |-> "no such file or directory", content |-> ""]
      [] f.kind = "dir"        -> [err |-> "is a directory", content |-> ""]
      [] f.kind = "unreadable" -> [err |-> "permission denied", content |-> ""]
      [] OTHER              -> [err |-> "", content |-> f.content]

NilURL == [nil |-> TRUE, Scheme |-> "", Host |-> "", Path |-> ""]

\* url.Parse on the service addresses of the model
UrlParse(s) ==
    CASE s = "http://maintenance.local" ->
            [err |-> "", url |-> [nil |-> FALSE, Scheme |-> "http", Host |-> "maintenance.local", Path |-> ""]]
      [] s = "http://maintenance.local/pages" ->
            [err |-> "", url |-> [nil |-> FALSE, Scheme |-> "http", Host |-> "maintenance.local", Path |-> "/pages"]]
      [] s = "maintenance.local" ->
            [err |-> "", url |-> [nil |-> FALSE, Scheme |-> "", Host |-> "", Path |-> "maintenance.local"]]
      [] s = "http://" ->
            [err |-> "", url |-> [nil |-> FALSE, Scheme |-> "http", Host |-> "", Path |-> ""]]
      [] s = "://bad" ->
            [err |-> "missing protocol scheme", url |-> NilURL]
      [] OTHER ->
            [err |-> "", url |-> [nil |-> FALSE, Scheme |-> "", Host |-> "", Path |-> s]]

(***************************************************************************)
(* Config and CreateConfig.                                                *)
(***************************************************************************)
LogLevelError == 1
StatusServiceUnavailable == 503

CreateConfig ==
    [MaintenanceService  |-> "",
     MaintenanceFilePath |-> "",
     MaintenanceContent  |-> "",
     BypassHeader        |-> "X-Maintenance-Bypass",
     BypassHeaderValue   |-> "true",
     Enabled             |-> TRUE,
     StatusCode          |-> 503,
     BypassPaths         |-> <<>>,
     BypassFavicon       |-> TRUE,
     LogLevel            |-> LogLevelError,
     MaintenanceTimeout  |-> 10,
     ContentType         |-> "text/html; charset=utf-8"]

\* the configurations New is applied to
\* the three content sources: each absent or present, and the malformed service addresses
ContentSources ==
    ({"", "http://maintenance.local"} \X {"", "/etc/traefik/maintenance.html"} \X {"", "<html>down</html>"})
    \cup ({"maintenance.local", "http://", "://bad"} \X {""} \X {""})
    \cup {<<"maintenance.local", "", "<html>down</html>">>,
          <<"http://maintenance.local/pages", "", "">>}
BypassHeaders == {"X-Maintenance-Bypass", "x-maintenance-bypass"}
BypassHeaderValues == {"true", ""}
StatusCodes == {0, 429}
BypassPathLists == {<<>>, <<"/health">>, <<"/api/status", "/static">>}

\* every combination of content sources, with both values of Enabled and
\* the status codes, under the default bypass settings
SourceConfigs ==
    { [CreateConfig EXCEPT
          !.MaintenanceService = c[1][1], !.MaintenanceFilePath = c[1][2],
          !.MaintenanceContent = c[1][3], !.Enabled = c[2], !.StatusCode = c[3]] :
      c \in ContentSources \X BOOLEAN \X StatusCodes }

\* every combination of bypass settings, for each single content source
SingleSources ==
    {<<"http://maintenance.local", "", "">>,
     <<"", "/etc/traefik/maintenance.html", "">>,
     <<"", "", "<html>down</html>">>}

BypassConfigs ==
    { [CreateConfig EXCEPT
          !.MaintenanceService = c[1][1], !.MaintenanceFilePath = c[1][2],
          !.MaintenanceContent = c[1][3], !.BypassHeader = c[2],
          !.BypassHeaderValue = c[3], !.BypassPaths = c[4], !.BypassFavicon = c[5],
          !.StatusCode = 0] :
      c \in SingleSources \X BypassHeaders \X BypassHeaderValues \X
            BypassPathLists \X BOOLEAN }

\* the content type left empty and set, for each single content source
ContentTypes == {"", "application/json"}

ContentTypeConfigs ==
    { [CreateConfig EXCEPT
          !.MaintenanceService = c[1][1], !.MaintenanceFilePath = c[1][2],
          !.MaintenanceContent = c[1][3], !.ContentType = c[2]] :
      c \in SingleSources \X ContentTypes }

Configs == {CreateConfig} \cup SourceConfigs \cup BypassConfigs \cup ContentTypeConfigs

(***************************************************************************)
(* MaintenanceBypass, loadMaintenanceFile and New.                         *)
(***************************************************************************)
\* the zero value of the struct
ZeroMaintenanceBypass ==
    [maintenanceService     |-> NilURL,
     maintenanceFilePath    |-> "",
     maintenanceFileContent |-> Nil,
     maintenanceContent     |-> "",
     maintenanceFileLastMod |-> 0,
     bypassHeader           |-> "",
     bypassHeaderValue      |-> "",
     enabled                |-> FALSE,
     statusCode             |-> 0,
     bypassPaths            |-> <<>>,
     bypassFavicon          |-> FALSE,
     timeout                |-> 0,
     contentType            |-> ""]

\* a comparison that never finds the file newer
AfterNever(t, u) == FALSE

\* a comparison that finds every file of another time newer
AfterOrBefore(t, u) == t # u

\* a comparison that finds a file of the same time newer
AfterOrEqual(t, u) == t >= u

\* time.Time.After
After(t, u) == t > u

\* loadMaintenanceFile without the comparison of modification times
loadMaintenanceFileAlwaysReads(mm, f) ==
    LET fileInfo == Stat(f)
        rd       == ReadFile(f)
    IN IF fileInfo.err # ""
       THEN [m |-> mm, err |-> "error accessing maintenance file: " \o fileInfo.err, reads |-> 0]
       ELSE IF rd.err # ""
       THEN [m |-> mm, err |-> "error reading maintenance file: " \o rd.err, reads |-> 1]
       ELSE IF Len(rd.content) = 0
       THEN [m |-> mm, err |-> "maintenance file is empty: " \o mm.maintenanceFilePath, reads |-> 1]
       ELSE [m |-> [mm EXCEPT !.maintenanceFileContent = Bytes(rd.content),
                              !.maintenanceFileLastMod = fileInfo.modTime],
             err |-> "", reads |-> 1]

\* loadMaintenanceFile without the check for an empty file
loadMaintenanceFileEmptyAccepted(mm, f) ==
    LET fileInfo == Stat(f)
        rd       == ReadFile(f)
    IN IF fileInfo.err # ""
       THEN [m |-> mm, err |-> "error accessing maintenance file: " \o fileInfo.err, reads |-> 0]
       ELSE IF mm.maintenanceFileContent # Nil /\ ~After(fileInfo.modTime, mm.maintenanceFileLastMod)
       THEN [m |-> mm, err |-> "", reads |-> 0]
       ELSE IF rd.err # ""
       THEN [m |-> mm, err |-> "error reading maintenance file: " \o rd.err, reads |-> 1]
       ELSE [m |-> [mm EXCEPT !.maintenanceFileContent = Bytes(rd.content),
                              !.maintenanceFileLastMod = fileInfo.modTime],
             err |-> "", reads |-> 1]

\* loadMaintenanceFile storing what it read before it checks for an empty file
loadMaintenanceFileStoresUnchecked(mm, f) ==
    LET fileInfo == Stat(f)
        rd       == ReadFile(f)
        m1       == [mm EXCEPT !.maintenanceFileContent = Bytes(rd.content),
                               !.maintenanceFileLastMod = fileInfo.modTime]
    IN IF fileInfo.err # ""
       THEN [m |-> mm, err |-> "error accessing maintenance file: " \o fileInfo.err, reads |-> 0]
       ELSE IF mm.maintenanceFileContent # Nil /\ ~After(fileInfo.modTime, mm.maintenanceFileLastMod)
       THEN [m |-> mm, err |-> "", reads |-> 0]
       ELSE IF rd.err # ""
       THEN [m |-> mm, err |-> "error reading maintenance file: " \o rd.err, reads |-> 1]
       ELSE IF Len(rd.content) = 0
       THEN [m |-> m1, err |-> "maintenance file is empty: " \o mm.maintenanceFilePath, reads |-> 1]
       ELSE [m |-> m1, err |-> "", reads |-> 1]

\* loadMaintenanceFile storing the modification time before it reads the file
loadMaintenanceFileModTimeFirst(mm, f) ==
    LET fileInfo == Stat(f)
        rd       == ReadFile(f)
        m1       == [mm EXCEPT !.maintenanceFileLastMod = fileInfo.modTime]
    IN IF fileInfo.err # ""
       THEN [m |-> mm, err |-> "error accessing maintenance file: " \o fileInfo.err, reads |-> 0]
       ELSE IF mm.maintenanceFileContent # Nil /\ ~After(fileInfo.modTime, mm.maintenanceFileLastMod)
       THEN [m |-> mm, err |-> "", reads |-> 0]
       ELSE IF rd.err # ""
       THEN [m |-> m1, err |-> "error reading maintenance file: " \o rd.err, reads |-> 1]
       ELSE IF Len(rd.content) = 0
       THEN [m |-> m1, err |-> "maintenance file is empty: " \o mm.maintenanceFilePath, reads |-> 1]
       ELSE [m |-> [m1 EXCEPT !.maintenanceFileContent = Bytes(rd.content)],
             err |-> "", reads |-> 1]

\* loadMaintenanceFile, run under the exclusive fileMutex: the instance after
\* the call, the error returned ("" is nil) and the number of ReadFile calls
loadMaintenanceFile(mm, f) ==
    LET fileInfo == Stat(f)
        rd       == ReadFile(f)
    IN IF fileInfo.err # ""
       THEN [m |-> mm, err |-> "error accessing maintenance file: " \o fileInfo.err, reads |-> 0]
       ELSE IF mm.maintenanceFileContent # Nil /\ ~After(fileInfo.modTime, mm.maintenanceFileLastMod)
       THEN [m |-> mm, err |-> "", reads |-> 0]
       ELSE IF rd.err # ""
       THEN [m |-> mm, err |-> "error reading maintenance file: " \o rd.err, reads |-> 1]
       ELSE IF Len(rd.content) = 0
       THEN [m |-> mm, err |-> "maintenance file is empty: " \o mm.maintenanceFilePath, reads |-> 1]
       ELSE [m |-> [mm EXCEPT !.maintenanceFileContent = Bytes(rd.content),
                              !.maintenanceFileLastMod = fileInfo.modTime],
             err |-> "", reads |-> 1]

\* the instance built without the default content type
NewInstanceContentTypeKept(config) ==
    LET statusCode == IF config.StatusCode = 0 THEN StatusServiceUnavailable ELSE config.StatusCode
    IN [ZeroMaintenanceBypass EXCEPT
           !.maintenanceFilePath = config.MaintenanceFilePath,
           !.maintenanceContent  = config.MaintenanceContent,
           !.bypassHeader        = config.BypassHeader,
           !.bypassHeaderValue   = config.BypassHeaderValue,
           !.enabled             = config.Enabled,
           !.statusCode          = statusCode,
           !.bypassPaths         = config.BypassPaths,
           !.bypassFavicon       = config.BypassFavicon,
           !.contentType         = config.ContentType]

\* lines 115-145 of New: the defaults and the instance before validation
NewInstance(config) ==
    LET statusCode  == IF config.StatusCode = 0 THEN StatusServiceUnavailable ELSE config.StatusCode
        contentType == IF config.ContentType = "" THEN "text/html; charset=utf-8" ELSE config.ContentType
    IN [ZeroMaintenanceBypass EXCEPT
           !.maintenanceFilePath = config.MaintenanceFilePath,
           !.maintenanceContent  = config.MaintenanceContent,
           !.bypassHeader        = config.BypassHeader,
           !.bypassHeaderValue   = config.BypassHeaderValue,
           !.enabled             = config.Enabled,
           !.statusCode          = statusCode,
           !.bypassPaths         = config.BypassPaths,
           !.bypassFavicon       = config.BypassFavicon,
           !.contentType         = contentType]

NoHandler(err) == [nil |-> TRUE, m |-> ZeroMaintenanceBypass, err |-> err]

\* the service address validated for its scheme only
NewServiceSchemeOnly(config, m0) ==
    LET pu == UrlParse(config.MaintenanceService)
        timeout == IF config.MaintenanceTimeout = 0 THEN 10 ELSE config.MaintenanceTimeout
    IN IF pu.err # ""
       THEN NoHandler("invalid maintenance service URL: " \o pu.err)
       ELSE IF pu.url.Scheme = ""
       THEN NoHandler("maintenance service URL must include scheme and host")
       ELSE [nil |-> FALSE,
             m |-> [m0 EXCEPT !.maintenanceService = pu.url, !.timeout = timeout],
             err |-> ""]

\* lines 156-174 of New: the service address validated, the target and timeout stored
NewService(config, m0) ==
    LET pu == UrlParse(config.MaintenanceService)
        timeout == IF config.MaintenanceTimeout = 0 THEN 10 ELSE config.MaintenanceTimeout
    IN IF pu.err # ""
       THEN NoHandler("invalid maintenance service URL: " \o pu.err)
       ELSE IF pu.url.Scheme = "" \/ pu.url.Host = ""
       THEN NoHandler("maintenance service URL must include scheme and host")
       ELSE [nil |-> FALSE,
             m |-> [m0 EXCEPT !.maintenanceService = pu.url, !.timeout = timeout],
             err |-> ""]

\* New validating the service address whenever one is given
NewHandlerServiceAlways(config, f) ==
    LET m0 == NewInstance(config)
        ld == loadMaintenanceFile(m0, f)
    IN IF config.MaintenanceService # "" /\ NewService(config, m0).nil
       THEN NewService(config, m0)
       ELSE IF config.MaintenanceFilePath # ""
       THEN IF ld.err # ""
            THEN NoHandler("failed to load maintenance file: " \o ld.err)
            ELSE [nil |-> FALSE, m |-> ld.m, err |-> ""]
       ELSE IF config.MaintenanceContent # ""
       THEN [nil |-> FALSE, m |-> m0, err |-> ""]
       ELSE IF config.MaintenanceService # ""
       THEN NewService(config, m0)
       ELSE NoHandler("either maintenanceService, maintenanceFilePath, or maintenanceContent must be specified")

\* New without its final else branch
NewHandlerNoSourceAccepted(config, f) ==
    LET m0 == NewInstance(config)
        ld == loadMaintenanceFile(m0, f)
    IN IF config.MaintenanceFilePath # ""
       THEN IF ld.err # ""
            THEN NoHandler("failed to load maintenance file: " \o ld.err)
            ELSE [nil |-> FALSE, m |-> ld.m, err |-> ""]
       ELSE IF config.MaintenanceContent # ""
       THEN [nil |-> FALSE, m |-> m0, err |-> ""]
       ELSE IF config.MaintenanceService # ""
       THEN NewService(config, m0)
       ELSE [nil |-> FALSE, m |-> m0, err |-> ""]

\* New: the handler (nil TRUE when none is returned) and the error
\* New validating and loading nothing while maintenance is switched off
NewHandlerDisabledUnchecked(config, f) ==
    LET m0 == NewInstance(config)
        ld == loadMaintenanceFile(m0, f)
    IN IF ~config.Enabled
       THEN [nil |-> FALSE, m |-> m0, err |-> ""]
       ELSE IF config.MaintenanceFilePath # ""
       THEN IF ld.err # ""
            THEN NoHandler("failed to load maintenance file: " \o ld.err)
            ELSE [nil |-> FALSE, m |-> ld.m, err |-> ""]
       ELSE IF config.MaintenanceContent # ""
       THEN [nil |-> FALSE, m |-> m0, err |-> ""]
       ELSE IF config.MaintenanceService # ""
       THEN NewService(config, m0)
       ELSE NoHandler("either maintenanceService, maintenanceFilePath, or maintenanceContent must be specified")

NewHandler(config, f) ==
    LET m0 == NewInstance(config)
        ld == loadMaintenanceFile(m0, f)
    IN IF config.MaintenanceFilePath # ""
       THEN IF ld.err # ""
            THEN NoHandler("failed to load maintenance file: " \o ld.err)
            ELSE [nil |-> FALSE, m |-> ld.m, err |-> ""]
       ELSE IF config.MaintenanceContent # ""
       THEN [nil |-> FALSE, m |-> m0, err |-> ""]
       ELSE IF config.MaintenanceService # ""
       THEN NewService(config, m0)
       ELSE NoHandler("either maintenanceService, maintenanceFilePath, or maintenanceContent must be specified")

(***************************************************************************)
(* Requests, the next handler and the maintenance backend.                 *)
(***************************************************************************)
Paths == {"/", "/favicon.ico", "/static/favicon.ico", "/health/live", "/heal", "/api/status"}

RequestHeaders ==
    {EmptyHeader,
     [EmptyHeader EXCEPT !["X-Maintenance-Bypass"] = <<"true">>],
     [EmptyHeader EXCEPT !["X-Maintenance-Bypass"] = <<"TRUE">>],
     [EmptyHeader EXCEPT !["X-Test-Header"] = <<"true">>]}

\* the requests the server hands to ServeHTTP (header keys are canonical)
Requests ==
    { [Method |-> "GET",
       URL    |-> [Scheme |-> "http", Host |-> "example.com", Path |-> p],
       Host   |-> "example.com",
       Header |-> h] : p \in Paths, h \in RequestHeaders }
    \cup
    { [Method |-> "POST",
       URL    |-> [Scheme |-> "http", Host |-> "example.com", Path |-> "/"],
       Host   |-> "example.com",
       Header |-> EmptyHeader] }

\* what the next handler writes
NextHandler == [status |-> 200, body |-> "This is the normal content"]

\* what the round trip to the maintenance service yields
BackendOK ==
    [kind |-> "response", status |-> 200,
     header |-> <<<<"X-Test-Header", "test-value">>>>,
     body |-> "<html>Maintenance Page</html>", err |-> ""]

BackendOutcomes ==
    {BackendOK,
     [kind |-> "response", status |-> 500,
      header |-> <<<<"X-Maintenance-Mode", "false">>, <<"Retry-After", "5">>>>,
      body |-> "", err |-> ""],
     [kind |-> "error", status |-> 0, header |-> <<>>, body |-> "",
      err |-> "dial tcp: connection refused"],
     [kind |-> "error", status |-> 0, header |-> <<>>, body |-> "",
      err |-> "net/http: timeout awaiting response headers"]}

NoRequest ==
    [Method |-> "", URL |-> [Scheme |-> "", Host |-> "", Path |-> ""],
     Host |-> "", Header |-> EmptyHeader]

\* the record of one ServeHTTP call: the response writer, the caller's request
\* object, the calls made to the next handler (with the request each received),
\* the maintenance responders entered, the requests sent to the backend, the
\* rule that let the request through, the instance and the ReadFile calls
NewExec(mm, rw, req) ==
    [rw |-> rw, req |-> req, nextCalls |-> 0, nextReq |-> <<>>,
     maintCalls |-> 0, branch |-> <<>>, backendReq |-> <<>>,
     rule |-> "", m |-> mm, reads |-> 0, stats |-> 0, locks |-> 0,
     loadErr |-> "", afterFailure |-> FALSE]

\* m.next.ServeHTTP(rw, req): the next handler writes its own response
NextServeHTTP(e, req, nx, rule) ==
    [e EXCEPT !.nextCalls = @ + 1,
              !.nextReq = Append(@, req),
              !.rule = rule,
              !.rw = RwWrite(RwWriteHeader(e.rw, nx.status), nx.body)]

(***************************************************************************)
(* maintenanceResponseWriter.                                              *)
(***************************************************************************)
NewMaintenanceResponseWriter(rw, statusCode) ==
    [ResponseWriter |-> rw, statusCode |-> statusCode, headerSet |-> FALSE]

\* WriteHeader forwarding the status code it is given
WriterWriteHeaderForwarding(w, statusCode) ==
    IF ~w.headerSet
    THEN [w EXCEPT !.ResponseWriter = RwWriteHeader(@, statusCode), !.headerSet = TRUE]
    ELSE w

\* WriteHeader without the headerSet guard
WriterWriteHeaderUnguarded(w, statusCode) ==
    [w EXCEPT !.ResponseWriter = RwWriteHeader(@, w.statusCode), !.headerSet = TRUE]

WriterWriteHeader(w, statusCode) ==
    IF ~w.headerSet
    THEN [w EXCEPT !.ResponseWriter = RwWriteHeader(@, w.statusCode), !.headerSet = TRUE]
    ELSE w

WriterWrite(w, b) ==
    LET w1 == IF ~w.headerSet THEN WriterWriteHeader(w, w.statusCode) ELSE w
    IN [w1 EXCEPT !.ResponseWriter = RwWrite(@, b)]

WriterHeaderSet(w, key, value) ==
    [w EXCEPT !.ResponseWriter = RwHeaderSet(@, key, value)]

(***************************************************************************)
(* The three maintenance responders.                                       *)
(***************************************************************************)
BytesToString(b) == IF b = Nil THEN "" ELSE b[1]

\* serveMaintenanceFile returning on a failed reload without writing anything
serveMaintenanceFileSilent(e, f) ==
    LET ld == loadMaintenanceFile(e.m, f)
        e1 == [e EXCEPT !.maintCalls = @ + 1, !.branch = Append(@, "file"),
                        !.m = ld.m, !.reads = @ + ld.reads,
                        !.stats = @ + 1, !.loadErr = ld.err,
                        !.locks = @ + (IF ld.err # "" THEN 1 ELSE 2)]
        content == ld.m.maintenanceFileContent
        rw1 == RwHeaderSet(e.rw, "Content-Type", e.m.contentType)
        rw2 == RwHeaderSet(rw1, "Cache-Control", "no-cache, no-store, must-revalidate")
        rw3 == RwHeaderSet(rw2, "X-Maintenance-Mode", "true")
        rw4 == RwWriteHeader(rw3, e.m.statusCode)
    IN IF ld.err # ""
       THEN e1
       ELSE [e1 EXCEPT !.rw = RwWrite(rw4, BytesToString(content))]

\* serveMaintenanceFile answering with the cached content on a failed reload
serveMaintenanceFileCachedOnError(e, f) ==
    LET ld == loadMaintenanceFile(e.m, f)
        e1 == [e EXCEPT !.maintCalls = @ + 1, !.branch = Append(@, "file"),
                        !.m = ld.m, !.reads = @ + ld.reads,
                        !.stats = @ + 1, !.loadErr = ld.err,
                        !.locks = @ + (IF ld.err # "" THEN 1 ELSE 2)]
        content == ld.m.maintenanceFileContent
        rw1 == RwHeaderSet(e.rw, "Content-Type", e.m.contentType)
        rw2 == RwHeaderSet(rw1, "Cache-Control", "no-cache, no-store, must-revalidate")
        rw3 == RwHeaderSet(rw2, "X-Maintenance-Mode", "true")
        rw4 == RwWriteHeader(rw3, e.m.statusCode)
    IN [e1 EXCEPT !.rw = RwWrite(rw4, BytesToString(content))]

\* serveMaintenanceFile committing the status code before it sets its headers
serveMaintenanceFileHeadersLate(e, f) ==
    LET ld == loadMaintenanceFile(e.m, f)
        e1 == [e EXCEPT !.maintCalls = @ + 1, !.branch = Append(@, "file"),
                        !.m = ld.m, !.reads = @ + ld.reads,
                        !.stats = @ + 1, !.loadErr = ld.err,
                        !.locks = @ + (IF ld.err # "" THEN 1 ELSE 2)]
        content == ld.m.maintenanceFileContent
        rwErr == HttpError(RwHeaderSet(e.rw, "X-Maintenance-Mode", "true"),
                           "Service Temporarily Unavailable", e.m.statusCode)
        rw1 == RwWriteHeader(e.rw, e.m.statusCode)
        rw2 == RwHeaderSet(rw1, "Content-Type", e.m.contentType)
        rw3 == RwHeaderSet(rw2, "Cache-Control", "no-cache, no-store, must-revalidate")
        rw4 == RwHeaderSet(rw3, "X-Maintenance-Mode", "true")
    IN IF ld.err # ""
       THEN [e1 EXCEPT !.rw = rwErr]
       ELSE [e1 EXCEPT !.rw = RwWrite(rw4, BytesToString(content))]

serveMaintenanceFile(e, f) ==
    LET ld == loadMaintenanceFile(e.m, f)
        e1 == [e EXCEPT !.maintCalls = @ + 1, !.branch = Append(@, "file"),
                        !.m = ld.m, !.reads = @ + ld.reads,
                        !.stats = @ + 1, !.loadErr = ld.err,
                        !.locks = @ + (IF ld.err # "" THEN 1 ELSE 2)]
        content == ld.m.maintenanceFileContent
        rwErr == HttpError(RwHeaderSet(e.rw, "X-Maintenance-Mode", "true"),
                           "Service Temporarily Unavailable", e.m.statusCode)
        rw1 == RwHeaderSet(e.rw, "Content-Type", e.m.contentType)
        rw2 == RwHeaderSet(rw1, "Cache-Control", "no-cache, no-store, must-revalidate")
        rw3 == RwHeaderSet(rw2, "X-Maintenance-Mode", "true")
        rw4 == RwWriteHeader(rw3, e.m.statusCode)
    IN IF ld.err # ""
       THEN [e1 EXCEPT !.rw = rwErr]
       ELSE [e1 EXCEPT !.rw = RwWrite(rw4, BytesToString(content))]

\* serveMaintenanceContent serving the cached file content when there is one
serveMaintenanceContentCachedFirst(e) ==
    LET rw1 == RwHeaderSet(e.rw, "Content-Type", e.m.contentType)
        rw2 == RwHeaderSet(rw1, "Cache-Control", "no-cache, no-store, must-revalidate")
        rw3 == RwHeaderSet(rw2, "X-Maintenance-Mode", "true")
        rw4 == RwWriteHeader(rw3, e.m.statusCode)
        content == IF e.m.maintenanceFileContent # Nil
                   THEN BytesToString(e.m.maintenanceFileContent)
                   ELSE e.m.maintenanceContent
    IN [e EXCEPT !.maintCalls = @ + 1, !.branch = Append(@, "inline"),
                 !.rw = RwWrite(rw4, content)]

\* serveMaintenanceContent without the Cache-Control header
serveMaintenanceContentCacheable(e) ==
    LET rw1 == RwHeaderSet(e.rw, "Content-Type", e.m.contentType)
        rw3 == RwHeaderSet(rw1, "X-Maintenance-Mode", "true")
        rw4 == RwWriteHeader(rw3, e.m.statusCode)
    IN [e EXCEPT !.maintCalls = @ + 1, !.branch = Append(@, "inline"),
                 !.rw = RwWrite(rw4, e.m.maintenanceContent)]

serveMaintenanceContent(e) ==
    LET rw1 == RwHeaderSet(e.rw, "Content-Type", e.m.contentType)
        rw2 == RwHeaderSet(rw1, "Cache-Control", "no-cache, no-store, must-revalidate")
        rw3 == RwHeaderSet(rw2, "X-Maintenance-Mode", "true")
        rw4 == RwWriteHeader(rw3, e.m.statusCode)
    IN [e EXCEPT !.maintCalls = @ + 1, !.branch = Append(@, "inline"),
                 !.rw = RwWrite(rw4, e.m.maintenanceContent)]

\* the error handler writing the transport error to the client
ErrorHandlerLeaking(w, statusCode, err) ==
    LET w1 == WriterHeaderSet(w, "X-Maintenance-Mode", "true")
        w2 == WriterWriteHeader(w1, statusCode)
    IN WriterWrite(w2, err)

\* proxy.ErrorHandler of proxyToMaintenanceService; err is only logged
ErrorHandler(w, statusCode, err) ==
    LET w1 == WriterHeaderSet(w, "X-Maintenance-Mode", "true")
        w2 == WriterWriteHeader(w1, statusCode)
    IN WriterWrite(w2, "Service temporarily unavailable")

RECURSIVE CopyHeader(_, _)
\* httputil copyHeader: every value of the backend response is added
CopyHeader(h, src) ==
    IF src = <<>> THEN h
    ELSE CopyHeader(HeaderAdd(h, src[1][1], src[1][2]), Tail(src))

\* httputil.ReverseProxy.ServeHTTP with the outcome be of the round trip
ReverseProxyServeHTTP(w, statusCode, be) ==
    IF be.kind = "error"
    THEN ErrorHandler(w, statusCode, be.err)
    ELSE LET w1 == [w EXCEPT !.ResponseWriter.header = CopyHeader(@, be.header)]
             w2 == WriterWriteHeader(w1, be.status)
         IN IF be.body = "" THEN w2 ELSE WriterWrite(w2, be.body)

\* httputil singleJoiningSlash: the target path and the request path joined
\* by exactly one slash
SingleJoiningSlash(a, b) ==
    LET aslash == HasSuffix(a, "/")
        bslash == HasPrefix(b, "/")
    IN IF aslash /\ bslash THEN a \o SubSeq(b, 2, Len(b))
       ELSE IF ~aslash /\ ~bslash THEN a \o "/" \o b
       ELSE a \o b

\* the director of httputil.NewSingleHostReverseProxy(target), applied to the
\* proxy's own copy of the request it is handed
Director(target, req) ==
    [req EXCEPT !.URL.Scheme = target.Scheme,
                !.URL.Host = target.Host,
                !.URL.Path = SingleJoiningSlash(target.Path, req.URL.Path)]

\* the proxy rewriting the caller's request in place, without req.Clone
proxyToMaintenanceServiceInPlace(e, be) ==
    LET maintenanceWriter == NewMaintenanceResponseWriter(e.rw, e.m.statusCode)
        proxyReq == [e.req EXCEPT !.URL.Host = e.m.maintenanceService.Host,
                                  !.URL.Scheme = e.m.maintenanceService.Scheme,
                                  !.Host = e.m.maintenanceService.Host]
        w == ReverseProxyServeHTTP(maintenanceWriter, e.m.statusCode, be)
    IN [e EXCEPT !.maintCalls = @ + 1, !.branch = Append(@, "proxy"),
                 !.req = proxyReq,
                 !.backendReq = Append(@, Director(e.m.maintenanceService, proxyReq)),
                 !.rw = w.ResponseWriter]

proxyToMaintenanceService(e, be) ==
    LET maintenanceWriter == NewMaintenanceResponseWriter(e.rw, e.m.statusCode)
        \* req.Clone: proxyReq is an independent copy of the caller's request
        proxyReq == [e.req EXCEPT !.URL.Host = e.m.maintenanceService.Host,
                                  !.URL.Scheme = e.m.maintenanceService.Scheme,
                                  !.Host = e.m.maintenanceService.Host]
        w == ReverseProxyServeHTTP(maintenanceWriter, e.m.statusCode, be)
    IN [e EXCEPT !.maintCalls = @ + 1, !.branch = Append(@, "proxy"),
                 !.backendReq = Append(@, Director(e.m.maintenanceService, proxyReq)),
                 !.rw = w.ResponseWriter]

(***************************************************************************)
(* ServeHTTP.                                                              *)
(***************************************************************************)
\* the enabled flag ignored
DisabledIgnored(mm) == FALSE

\* maintenance mode taken as switched off once the file has been reloaded
DisabledOnceReloaded(mm) == ~mm.enabled \/ mm.maintenanceFileLastMod > 1

\* line 224: maintenance mode is switched off
Disabled(mm) == ~mm.enabled

\* the favicon rule without its bypassFavicon guard
FaviconBypassUnguarded(mm, req) ==
    HasSuffix(req.URL.Path, "/favicon.ico")

\* line 231: the favicon rule
FaviconBypass(mm, req) ==
    mm.bypassFavicon /\ HasSuffix(req.URL.Path, "/favicon.ico")

\* the loop with the arguments of strings.HasPrefix exchanged
PathBypassSwapped(bypassPaths, path) ==
    \E i \in 1..Len(bypassPaths) : HasPrefix(bypassPaths[i], path)

\* lines 238-244, the loop over m.bypassPaths: TRUE iff it reaches a matching prefix
PathBypass(bypassPaths, path) ==
    \E i \in 1..Len(bypassPaths) : HasPrefix(path, bypassPaths[i])

\* the header rule reading the header map under the configured name as written
HeaderBypassRawKey(mm, req) ==
    LET headerValue == IF mm.bypassHeader \in DOMAIN req.Header /\ Len(req.Header[mm.bypassHeader]) > 0
                       THEN req.Header[mm.bypassHeader][1] ELSE ""
    IN headerValue = mm.bypassHeaderValue

\* the header rule refusing an empty header value
HeaderBypassNonEmpty(mm, req) ==
    LET headerValue == HeaderGet(req.Header, mm.bypassHeader)
    IN headerValue # "" /\ headerValue = mm.bypassHeaderValue

\* the header rule firing only for a request that carries the header
HeaderBypassPresentOnly(mm, req) ==
    LET k == CanonicalMIMEHeaderKey(mm.bypassHeader)
        headerValue == HeaderGet(req.Header, mm.bypassHeader)
    IN /\ k \in DOMAIN req.Header
       /\ Len(req.Header[k]) > 0
       /\ headerValue = mm.bypassHeaderValue

\* lines 247-248: the header rule
HeaderBypass(mm, req) ==
    LET headerValue == HeaderGet(req.Header, mm.bypassHeader)
    IN headerValue = mm.bypassHeaderValue

\* the dispatch looking at the inline content before the file path
ServeMaintenanceInlineFirst(e, f, be) ==
    LET rw1 == RwHeaderSet(e.rw, "Retry-After", "3600")
        rw2 == RwHeaderSet(rw1, "X-Maintenance-Mode", "true")
        e1 == [e EXCEPT !.rw = rw2]
    IN IF e.m.maintenanceContent # ""
       THEN serveMaintenanceContent(e1)
       ELSE IF e.m.maintenanceFilePath # ""
       THEN serveMaintenanceFile(e1, f)
       ELSE proxyToMaintenanceService(e1, be)

\* the file branch without its return
ServeMaintenanceFallThrough(e, f, be) ==
    LET rw1 == RwHeaderSet(e.rw, "Retry-After", "3600")
        rw2 == RwHeaderSet(rw1, "X-Maintenance-Mode", "true")
        e1 == [e EXCEPT !.rw = rw2]
        e2 == IF e.m.maintenanceFilePath # "" THEN serveMaintenanceFile(e1, f) ELSE e1
    IN IF e.m.maintenanceContent # ""
       THEN serveMaintenanceContent(e2)
       ELSE proxyToMaintenanceService(e2, be)

\* the responders entered without the Retry-After header
ServeMaintenanceNoRetryAfter(e, f, be) ==
    LET e1 == [e EXCEPT !.rw = RwHeaderSet(e.rw, "X-Maintenance-Mode", "true")]
    IN IF e.m.maintenanceFilePath # ""
       THEN serveMaintenanceFile(e1, f)
       ELSE IF e.m.maintenanceContent # ""
       THEN serveMaintenanceContent(e1)
       ELSE proxyToMaintenanceService(e1, be)

\* lines 257-274: the maintenance headers, then the responder of the first
\* content source that is set
ServeMaintenance(e, f, be) ==
    LET rw1 == RwHeaderSet(e.rw, "Retry-After", "3600")
        rw2 == RwHeaderSet(rw1, "X-Maintenance-Mode", "true")
        e1 == [e EXCEPT !.rw = rw2]
    IN IF e.m.maintenanceFilePath # ""
       THEN serveMaintenanceFile(e1, f)
       ELSE IF e.m.maintenanceContent # ""
       THEN serveMaintenanceContent(e1)
       ELSE proxyToMaintenanceService(e1, be)

\* ServeHTTP refreshing the file cache before it looks at the request
ServeHTTPRefreshing(mm, f, rw, req, nx, be) ==
    LET ld == loadMaintenanceFile(mm, f)
        e0 == [NewExec(ld.m, rw, req) EXCEPT !.reads = ld.reads, !.stats = 1, !.locks = 1]
    IN IF Disabled(mm)
       THEN NextServeHTTP(e0, req, nx, "disabled")
       ELSE IF FaviconBypass(mm, req)
       THEN NextServeHTTP(e0, req, nx, "favicon")
       ELSE IF PathBypass(mm.bypassPaths, req.URL.Path)
       THEN NextServeHTTP(e0, req, nx, "path")
       ELSE IF HeaderBypass(mm, req)
       THEN NextServeHTTP(e0, req, nx, "header")
       ELSE ServeMaintenance(e0, f, be)

ServeHTTP(mm, f, rw, req, nx, be) ==
    LET e0 == NewExec(mm, rw, req)
    IN IF Disabled(mm)
       THEN NextServeHTTP(e0, req, nx, "disabled")
       ELSE IF FaviconBypass(mm, req)
       THEN NextServeHTTP(e0, req, nx, "favicon")
       ELSE IF PathBypass(mm.bypassPaths, req.URL.Path)
       THEN NextServeHTTP(e0, req, nx, "path")
       ELSE IF HeaderBypass(mm, req)
       THEN NextServeHTTP(e0, req, nx, "header")
       ELSE ServeMaintenance(e0, f, be)

(***************************************************************************)
(* The state machine.                                                      *)
(***************************************************************************)
FileContents == {"", "<html>v1</html>", "<html>version 2</html>"}

NoFile == [kind |-> "missing", content |-> "", modTime |-> 0]

NoExec == NewExec(ZeroMaintenanceBypass, NewRecorder, NoRequest)

\* no ServeHTTP call has just returned
Idle == orig = NoRequest

NoWriter == NewMaintenanceResponseWriter(NewRecorder, 0)

\* no request is inside proxyToMaintenanceService
NoProxy ==
    [pc |-> "idle", w |-> NoWriter, waited |-> 0, chunks |-> 0, err |-> ""]

\* the requests that may be inside serveMaintenanceFile at the same time
Procs == {"r1", "r2"}

NoPc == [p \in Procs |-> "idle"]

\* the locals of one request: fileInfo.ModTime(), the content read, the
\* error of loadMaintenanceFile, the content taken from the cache, the body
\* written; and, for the properties, the number of ReadFile calls, whether
\* the file was modified while the request ran, the body the state of
\* the file and of the cache at its start calls for ("" when they call for
\* none), and the contents the file has held since the request's os.Stat
\* (from the read on: the one of them that the read returned)
NoLocals ==
    [modTime |-> 0, content |-> "", err |-> "", cached |-> Nil,
     body |-> "", reads |-> 0, touched |-> FALSE, expect |-> "", since |-> {}]

NoLoc == [p \in Procs |-> NoLocals]

FreeMutex == [writer |-> "", readers |-> {}]

Init ==
    /\ cfg \in Configs
    /\ phase = "config"
    /\ newErr = ""
    /\ m = ZeroMaintenanceBypass
    /\ fs = NoFile
    /\ backend = BackendOK
    /\ orig = NoRequest
    /\ ex = NoExec
    /\ wr = NoWriter
    /\ hist = <<>>
    /\ loads = <<>>
    /\ pc = NoPc
    /\ loc = NoLoc
    /\ mutex = FreeMutex
    /\ written = {}
    /\ px = NoProxy

\* the host calls New(ctx, next, cfg, name)
New ==
    /\ phase = "config"
    /\ LET r == NewHandler(cfg, fs)
       IN /\ phase' = IF r.nil THEN "failed" ELSE "serving"
          /\ newErr' = r.err
          /\ m' = r.m
    /\ UNCHANGED <<cfg, fs, backend, orig, ex>>
    /\ UNCHANGED <<px, writerVars, loads, concVars>>

\* the host calls m.ServeHTTP(rw, req) with a fresh response writer
Serve ==
    /\ phase = "serving"
    /\ Idle
    /\ \E req \in Requests :
          LET e == ServeHTTP(m, fs, NewRecorder, req, NextHandler, backend)
          IN /\ orig' = req
             /\ ex' = [e EXCEPT !.afterFailure = ex.afterFailure]
             /\ m' = e.m
    /\ UNCHANGED <<cfg, phase, newErr, fs, backend>>
    /\ UNCHANGED <<px, writerVars, loads, concVars>>

\* the operator writes, replaces or touches the maintenance file
WriteFile ==
    /\ Idle
    /\ cfg.MaintenanceFilePath # ""
    /\ fs.kind \in {"missing", "file"}
    /\ \E c \in FileContents, t \in 1..MaxModTime :
          fs' = [kind |-> "file", content |-> c, modTime |-> t]
    /\ UNCHANGED <<cfg, phase, newErr, m, backend, orig, ex>>
    /\ loads' = <<>>
    /\ UNCHANGED <<px, writerVars, concVars>>

\* the operator removes the maintenance file or the directory in its place
RemoveFile ==
    /\ Idle
    /\ cfg.MaintenanceFilePath # ""
    /\ fs.kind # "missing"
    /\ fs' = NoFile
    /\ UNCHANGED <<cfg, phase, newErr, m, backend, orig, ex>>
    /\ loads' = <<>>
    /\ UNCHANGED <<px, writerVars, concVars>>

\* the operator puts a directory where the maintenance file is expected
MakeDir ==
    /\ Idle
    /\ cfg.MaintenanceFilePath # ""
    /\ fs.kind = "missing"
    /\ \E t \in 1..MaxModTime :
          fs' = [kind |-> "dir", content |-> "", modTime |-> t]
    /\ UNCHANGED <<cfg, phase, newErr, m, backend, orig, ex>>
    /\ loads' = <<>>
    /\ UNCHANGED <<px, writerVars, concVars>>

\* the operator takes away or gives back the permission to read the file;
\* the content and the modification time stay as they are
Chmod ==
    /\ Idle
    /\ cfg.MaintenanceFilePath # ""
    /\ fs.kind \in {"file", "unreadable"}
    /\ fs' = [fs EXCEPT !.kind = IF @ = "file" THEN "unreadable" ELSE "file"]
    /\ UNCHANGED <<cfg, phase, newErr, m, backend, orig, ex>>
    /\ loads' = <<>>
    /\ UNCHANGED <<px, writerVars, concVars>>

\* the maintenance service goes up or down, or changes what it answers
BackendChange ==
    /\ Idle
    /\ phase = "serving"
    /\ ~m.maintenanceService.nil
    /\ \E be \in BackendOutcomes :
          /\ be # backend
          /\ backend' = be
    /\ UNCHANGED <<cfg, phase, newErr, m, fs, orig, ex>>
    /\ UNCHANGED <<px, writerVars, loads, concVars>>

\* a reload has failed and none has succeeded since
FailedSinceReload == ex.loadErr # "" \/ (ex.afterFailure /\ ex.reads = 0)

\* the host sends the response of the call to the client and drops the writer
Return ==
    /\ ~Idle
    /\ orig' = NoRequest
    /\ ex' = [NoExec EXCEPT !.afterFailure = FailedSinceReload]
    /\ UNCHANGED <<cfg, phase, newErr, m, fs, backend>>
    /\ UNCHANGED <<px, writerVars, loads, concVars>>

Next ==
    New \/ Serve \/ Return \/ WriteFile \/ RemoveFile \/ MakeDir \/ Chmod \/ BackendChange

Spec == Init /\ [][Next]_vars

(***************************************************************************)
(* loadMaintenanceFile on its own: the calls New and serveMaintenanceFile  *)
(* make one after the other on one instance, while the operator modifies   *)
(* the file between them.  loads holds the calls made since the last       *)
(* modification.                                                           *)
(***************************************************************************)
FileConfig == [CreateConfig EXCEPT !.MaintenanceFilePath = "/etc/traefik/maintenance.html"]

InitLoad ==
    /\ cfg = FileConfig
    /\ phase = "config"
    /\ newErr = ""
    /\ m = NewInstance(cfg)
    /\ fs = NoFile
    /\ backend = BackendOK
    /\ orig = NoRequest
    /\ ex = NoExec
    /\ wr = NoWriter
    /\ hist = <<>>
    /\ loads = <<>>
    /\ pc = NoPc
    /\ loc = NoLoc
    /\ mutex = FreeMutex
    /\ written = {}
    /\ px = NoProxy

\* one call of m.loadMaintenanceFile()
LoadFile ==
    /\ Len(loads) < MaxLoads
    /\ LET ld == loadMaintenanceFile(m, fs)
       IN /\ m' = ld.m
          /\ loads' = Append(loads, [before |-> m, after |-> ld.m,
                                     err |-> ld.err, reads |-> ld.reads])
    /\ UNCHANGED <<cfg, phase, newErr, fs, backend, orig, ex, px, writerVars, concVars>>

NextLoad == LoadFile \/ WriteFile \/ RemoveFile \/ MakeDir \/ Chmod

SpecLoad == InitLoad /\ [][NextLoad]_vars

(***************************************************************************)
(* serveMaintenanceFile step by step: the requests of Procs run it         *)
(* concurrently on one instance while the operator rewrites or removes the *)
(* file.  Each step is one access to the mutex, to the file system or to   *)
(* the shared fields of the instance.  The assignment of the []byte field  *)
(* maintenanceFileContent writes the words of a slice header one after the *)
(* other: first the data pointer, then the length.                         *)
(***************************************************************************)
InitConc ==
    /\ cfg = FileConfig
    /\ phase = "serving"
    /\ newErr = ""
    /\ fs = [kind |-> "file", content |-> "<html>v1</html>", modTime |-> 1]
    /\ m = NewHandler(cfg, fs).m
    /\ backend = BackendOK
    /\ orig = NoRequest
    /\ ex = NoExec
    /\ wr = NoWriter
    /\ hist = <<>>
    /\ loads = <<>>
    /\ pc = NoPc
    /\ loc = NoLoc
    /\ mutex = FreeMutex
    /\ written = {"<html>v1</html>"}
    /\ px = NoProxy

\* the body a request starting now must produce if the file stays as it is
Expected ==
    IF mutex # FreeMutex \/ fs.kind # "file" THEN ""
    ELSE IF fs.modTime > m.maintenanceFileLastMod THEN fs.content
    ELSE BytesToString(m.maintenanceFileContent)

\* Lock taken without waiting for the readers
CanLockOverReaders(mx) == mx.writer = ""

\* sync.RWMutex: Lock waits for the writer and for every reader
CanLock(mx) == mx.writer = "" /\ mx.readers = {}

\* RLock taken without waiting for the writer
CanRLockAlways(mx) == TRUE

\* sync.RWMutex: RLock waits for the writer
CanRLock(mx) == mx.writer = ""

\* a slice header whose data pointer is new and whose length is still old
TornSlice(old, new) ==
    IF Len(BytesToString(old)) < Len(new)
    THEN Bytes(SubSeq(new, 1, Len(BytesToString(old))))
    ELSE Bytes(new)

\* ServeHTTP reaches serveMaintenanceFile(rw, req)
Enter(p) ==
    /\ pc[p] = "idle"
    /\ pc' = [pc EXCEPT ![p] = "lock"]
    /\ loc' = [loc EXCEPT ![p] = [NoLocals EXCEPT !.expect = Expected]]
    /\ UNCHANGED <<cfg, phase, newErr, m, fs, backend, orig, ex, px, writerVars, loads,
                   mutex, written>>

\* line 184: m.fileMutex.Lock()
Lock(p) ==
    /\ pc[p] = "lock"
    /\ CanLock(mutex)
    /\ mutex' = [mutex EXCEPT !.writer = p]
    /\ pc' = [pc EXCEPT ![p] = "stat"]
    /\ UNCHANGED <<cfg, phase, newErr, m, fs, backend, orig, ex, px, writerVars, loads,
                   loc, written>>

\* lines 187-195: os.Stat and the comparison with the cached modification time
StatFile(p) ==
    /\ pc[p] = "stat"
    /\ LET fileInfo == Stat(fs)
       IN IF fileInfo.err # ""
          THEN /\ loc' = [loc EXCEPT ![p].err = "error accessing maintenance file: " \o fileInfo.err]
               /\ pc' = [pc EXCEPT ![p] = "unlock"]
          ELSE IF m.maintenanceFileContent # Nil
                  /\ ~After(fileInfo.modTime, m.maintenanceFileLastMod)
          THEN /\ loc' = [loc EXCEPT ![p].modTime = fileInfo.modTime]
               /\ pc' = [pc EXCEPT ![p] = "unlock"]
          ELSE /\ loc' = [loc EXCEPT ![p].modTime = fileInfo.modTime,
                                     ![p].since = {fs.content}]
               /\ pc' = [pc EXCEPT ![p] = "read"]
    /\ UNCHANGED <<cfg, phase, newErr, m, fs, backend, orig, ex, px, writerVars, loads,
                   mutex, written>>

\* the reload keeping the content it has and taking only the new time
ReadContentKeepsCache(p) ==
    /\ pc[p] = "read"
    /\ LET content == BytesToString(m.maintenanceFileContent)
       IN loc' = [loc EXCEPT ![p].content = content, ![p].reads = @ + 1,
                             ![p].since = @ \cap {content}]
    /\ pc' = [pc EXCEPT ![p] = "storePtr"]
    /\ UNCHANGED <<cfg, phase, newErr, m, fs, backend, orig, ex, px, writerVars, loads,
                   mutex, written>>

\* lines 197-205: ioutil.ReadFile and the check for an empty file
ReadContent(p) ==
    /\ pc[p] = "read"
    /\ LET rd == ReadFile(fs)
       IN IF rd.err # ""
          THEN /\ loc' = [loc EXCEPT ![p].err = "error reading maintenance file: " \o rd.err,
                                     ![p].reads = @ + 1, ![p].since = {}]
               /\ pc' = [pc EXCEPT ![p] = "unlock"]
          ELSE IF Len(rd.content) = 0
          THEN /\ loc' = [loc EXCEPT ![p].err = "maintenance file is empty: " \o m.maintenanceFilePath,
                                     ![p].reads = @ + 1, ![p].since = {}]
               /\ pc' = [pc EXCEPT ![p] = "unlock"]
          ELSE /\ loc' = [loc EXCEPT ![p].content = rd.content, ![p].reads = @ + 1,
                                     ![p].since = @ \cap {rd.content}]
               /\ pc' = [pc EXCEPT ![p] = "storePtr"]
    /\ UNCHANGED <<cfg, phase, newErr, m, fs, backend, orig, ex, px, writerVars, loads,
                   mutex, written>>

\* line 207, first word: the data pointer of m.maintenanceFileContent
StorePtr(p) ==
    /\ pc[p] = "storePtr"
    /\ m' = [m EXCEPT !.maintenanceFileContent = TornSlice(@, loc[p].content)]
    /\ pc' = [pc EXCEPT ![p] = "storeLen"]
    /\ UNCHANGED <<cfg, phase, newErr, fs, backend, orig, ex, px, writerVars, loads,
                   loc, mutex, written>>

\* line 207, the rest of the slice header
StoreLen(p) ==
    /\ pc[p] = "storeLen"
    /\ m' = [m EXCEPT !.maintenanceFileContent = Bytes(loc[p].content)]
    /\ pc' = [pc EXCEPT ![p] = "storeModTime"]
    /\ UNCHANGED <<cfg, phase, newErr, fs, backend, orig, ex, px, writerVars, loads,
                   loc, mutex, written>>

\* line 208: m.maintenanceFileLastMod = fileInfo.ModTime()
StoreModTime(p) ==
    /\ pc[p] = "storeModTime"
    /\ m' = [m EXCEPT !.maintenanceFileLastMod = loc[p].modTime]
    /\ pc' = [pc EXCEPT ![p] = "unlock"]
    /\ UNCHANGED <<cfg, phase, newErr, fs, backend, orig, ex, px, writerVars, loads,
                   loc, mutex, written>>

\* loadMaintenanceFile returning with the lock still held when it fails
UnlockOnSuccessOnly(p) ==
    /\ pc[p] = "unlock"
    /\ mutex' = IF loc[p].err # "" THEN mutex ELSE [mutex EXCEPT !.writer = ""]
    /\ loc' = [loc EXCEPT ![p].modTime = 0, ![p].content = "", ![p].since = {}]
    /\ pc' = [pc EXCEPT ![p] = IF loc[p].err # "" THEN "fail" ELSE "rlock"]
    /\ UNCHANGED <<cfg, phase, newErr, m, fs, backend, orig, ex, px, writerVars, loads,
                   written>>

\* the deferred m.fileMutex.Unlock() as loadMaintenanceFile returns and its
\* locals go; serveMaintenanceFile goes on at line 281
Unlock(p) ==
    /\ pc[p] = "unlock"
    /\ mutex' = [mutex EXCEPT !.writer = ""]
    /\ loc' = [loc EXCEPT ![p].modTime = 0, ![p].content = "", ![p].since = {}]
    /\ pc' = [pc EXCEPT ![p] = IF loc[p].err # "" THEN "fail" ELSE "rlock"]
    /\ UNCHANGED <<cfg, phase, newErr, m, fs, backend, orig, ex, px, writerVars, loads,
                   written>>

\* lines 281-286: on an error serveMaintenanceFile answers with http.Error
\* and returns
Fail(p) ==
    /\ pc[p] = "fail"
    /\ loc' = [loc EXCEPT ![p].body = "Service Temporarily Unavailable\n"]
    /\ pc' = [pc EXCEPT ![p] = "done"]
    /\ UNCHANGED <<cfg, phase, newErr, m, fs, backend, orig, ex, px, writerVars, loads,
                   mutex, written>>

\* line 289: m.fileMutex.RLock()
RLock(p) ==
    /\ pc[p] = "rlock"
    /\ CanRLock(mutex)
    /\ mutex' = [mutex EXCEPT !.readers = @ \cup {p}]
    /\ pc' = [pc EXCEPT ![p] = "readCache"]
    /\ UNCHANGED <<cfg, phase, newErr, m, fs, backend, orig, ex, px, writerVars, loads,
                   loc, written>>

\* line 290: content := m.maintenanceFileContent
ReadCache(p) ==
    /\ pc[p] = "readCache"
    /\ loc' = [loc EXCEPT ![p].cached = m.maintenanceFileContent]
    /\ pc' = [pc EXCEPT ![p] = "runlock"]
    /\ UNCHANGED <<cfg, phase, newErr, m, fs, backend, orig, ex, px, writerVars, loads,
                   mutex, written>>

\* line 291: m.fileMutex.RUnlock()
RUnlock(p) ==
    /\ pc[p] = "runlock"
    /\ mutex' = [mutex EXCEPT !.readers = @ \ {p}]
    /\ pc' = [pc EXCEPT ![p] = "respond"]
    /\ UNCHANGED <<cfg, phase, newErr, m, fs, backend, orig, ex, px, writerVars, loads,
                   loc, written>>

\* lines 294-300: the headers, the status code and rw.Write(content)
Respond(p) ==
    /\ pc[p] = "respond"
    /\ loc' = [loc EXCEPT ![p].body = BytesToString(loc[p].cached)]
    /\ pc' = [pc EXCEPT ![p] = "done"]
    /\ UNCHANGED <<cfg, phase, newErr, m, fs, backend, orig, ex, px, writerVars, loads,
                   mutex, written>>

\* the response has gone to the client; the next request may come
Leave(p) ==
    /\ pc[p] = "done"
    /\ pc' = [pc EXCEPT ![p] = "idle"]
    /\ loc' = [loc EXCEPT ![p] = NoLocals]
    /\ UNCHANGED <<cfg, phase, newErr, m, fs, backend, orig, ex, px, writerVars, loads,
                   mutex, written>>

\* every request under way has seen the file modified
Touched ==
    [p \in Procs |-> IF pc[p] = "idle" THEN loc[p] ELSE [loc[p] EXCEPT !.touched = TRUE]]

\* the operator rewrites the file while requests are served
UpdateFile ==
    /\ \E c \in FileContents, t \in 1..MaxModTime :
          /\ fs' = [kind |-> "file", content |-> c, modTime |-> t]
          /\ fs' # fs
          /\ written' = written \cup {c}
          /\ loc' = [p \in Procs |->
                       IF pc[p] = "read"
                       THEN [Touched[p] EXCEPT !.since = @ \cup {c}]
                       ELSE Touched[p]]
    /\ UNCHANGED <<cfg, phase, newErr, m, backend, orig, ex, px, writerVars, loads,
                   pc, mutex>>

\* the operator removes the file while requests are served
DeleteFile ==
    /\ fs.kind # "missing"
    /\ fs' = NoFile
    /\ loc' = Touched
    /\ UNCHANGED <<cfg, phase, newErr, m, backend, orig, ex, px, writerVars, loads,
                   pc, mutex, written>>

NextConc ==
    \/ \E p \in Procs :
          \/ Enter(p) \/ Lock(p) \/ StatFile(p) \/ ReadContent(p)
          \/ StorePtr(p) \/ StoreLen(p) \/ StoreModTime(p) \/ Unlock(p)
          \/ Fail(p) \/ RLock(p) \/ ReadCache(p) \/ RUnlock(p) \/ Respond(p) \/ Leave(p)
    \/ UpdateFile
    \/ DeleteFile

SpecConc == InitConc /\ [][NextConc]_vars

(***************************************************************************)
(* proxyToMaintenanceService step by step: one request waits for the round *)
(* trip to the maintenance service, whose only deadline is                 *)
(* Transport.ResponseHeaderTimeout = m.timeout (seconds here).  The        *)
(* service may answer, refuse, stay silent, and once its headers are out   *)
(* send body chunks, end the body, break the connection or stall.  The     *)
(* steps of the proxy and the timer are fair; the service owes nothing.    *)
(***************************************************************************)
MaintenanceTimeouts == {0, 3}

ProxyConfigs ==
    { [CreateConfig EXCEPT !.MaintenanceService = "http://maintenance.local",
                           !.StatusCode = c[1], !.MaintenanceTimeout = c[2]] :
      c \in StatusCodes \X MaintenanceTimeouts }

BackendResponses == {be \in BackendOutcomes : be.kind = "response"}

InitProxy ==
    /\ cfg \in ProxyConfigs
    /\ phase = "serving"
    /\ newErr = ""
    /\ m = NewHandler(cfg, NoFile).m
    /\ fs = NoFile
    /\ backend = BackendOK
    /\ orig = NoRequest
    /\ ex = NoExec
    /\ wr = NoWriter
    /\ hist = <<>>
    /\ loads = <<>>
    /\ pc = NoPc
    /\ loc = NoLoc
    /\ mutex = FreeMutex
    /\ written = {}
    /\ px = NoProxy

\* lines 258-259 and 318-348: the maintenance headers are set, the writer is
\* built and proxy.ServeHTTP starts the round trip
StartProxy ==
    /\ px.pc = "idle"
    /\ LET rw1 == RwHeaderSet(NewRecorder, "Retry-After", "3600")
           rw2 == RwHeaderSet(rw1, "X-Maintenance-Mode", "true")
       IN px' = [NoProxy EXCEPT !.pc = "roundTrip",
                                !.w = NewMaintenanceResponseWriter(rw2, m.statusCode)]
    /\ UNCHANGED <<cfg, phase, newErr, m, fs, backend, orig, ex, writerVars, loads, concVars>>

\* a second passes while the response headers are awaited
Tick ==
    /\ px.pc = "roundTrip"
    /\ px.waited < m.timeout
    /\ px' = [px EXCEPT !.waited = @ + 1]
    /\ UNCHANGED <<cfg, phase, newErr, m, fs, backend, orig, ex, writerVars, loads, concVars>>

\* ResponseHeaderTimeout (set when positive) expires: the round trip fails
\* and the error handler answers
HeaderTimeout ==
    /\ px.pc = "roundTrip"
    /\ m.timeout > 0
    /\ px.waited >= m.timeout
    /\ px' = [px EXCEPT !.pc = "returned",
                        !.err = "net/http: timeout awaiting response headers",
                        !.w = ErrorHandler(@, m.statusCode,
                                           "net/http: timeout awaiting response headers")]
    /\ UNCHANGED <<cfg, phase, newErr, m, fs, backend, orig, ex, writerVars, loads, concVars>>

\* the service refuses the connection
BackendRefuses ==
    /\ px.pc = "roundTrip"
    /\ px' = [px EXCEPT !.pc = "transportError", !.err = "dial tcp: connection refused"]
    /\ UNCHANGED <<cfg, phase, newErr, m, fs, backend, orig, ex, writerVars, loads, concVars>>

\* lines 332-337: proxy.ErrorHandler answers a failed round trip
HandleError ==
    /\ px.pc = "transportError"
    /\ px' = [px EXCEPT !.pc = "returned", !.w = ErrorHandler(@, m.statusCode, px.err)]
    /\ UNCHANGED <<cfg, phase, newErr, m, fs, backend, orig, ex, writerVars, loads, concVars>>

\* the service sends its status line and headers in time
BackendHeaders ==
    /\ px.pc = "roundTrip"
    /\ \E be \in BackendResponses : backend' = be
    /\ px' = [px EXCEPT !.pc = "gotHeaders"]
    /\ UNCHANGED <<cfg, phase, newErr, m, fs, orig, ex, writerVars, loads, concVars>>

\* ReverseProxy copies the headers and calls WriteHeader on the writer
CommitHeaders ==
    /\ px.pc = "gotHeaders"
    /\ px' = [px EXCEPT !.pc = "copy",
                        !.w = WriterWriteHeader(
                                 [@ EXCEPT !.ResponseWriter.header = CopyHeader(@, backend.header)],
                                 backend.status)]
    /\ UNCHANGED <<cfg, phase, newErr, m, fs, backend, orig, ex, writerVars, loads, concVars>>

\* the service sends a chunk of the body, which ReverseProxy writes on
BackendChunk ==
    /\ px.pc = "copy"
    /\ px.chunks < MaxChunks
    /\ px' = [px EXCEPT !.chunks = @ + 1, !.w = WriterWrite(@, "<p>chunk</p>")]
    /\ UNCHANGED <<cfg, phase, newErr, m, fs, backend, orig, ex, writerVars, loads, concVars>>

\* the service ends the body
BackendEOF ==
    /\ px.pc = "copy"
    /\ px' = [px EXCEPT !.pc = "eof"]
    /\ UNCHANGED <<cfg, phase, newErr, m, fs, backend, orig, ex, writerVars, loads, concVars>>

\* the copy of the body is over and proxy.ServeHTTP returns (line 348)
FinishCopy ==
    /\ px.pc = "eof"
    /\ px' = [px EXCEPT !.pc = "returned"]
    /\ UNCHANGED <<cfg, phase, newErr, m, fs, backend, orig, ex, writerVars, loads, concVars>>

\* the connection to the service breaks while the body is sent
BackendBreaks ==
    /\ px.pc = "copy"
    /\ px' = [px EXCEPT !.pc = "broken", !.err = "unexpected EOF"]
    /\ UNCHANGED <<cfg, phase, newErr, m, fs, backend, orig, ex, writerVars, loads, concVars>>

\* ReverseProxy gives up the copy and ends the handler (http.ErrAbortHandler)
AbortCopy ==
    /\ px.pc = "broken"
    /\ px' = [px EXCEPT !.pc = "aborted"]
    /\ UNCHANGED <<cfg, phase, newErr, m, fs, backend, orig, ex, writerVars, loads, concVars>>

NextProxy ==
    \/ StartProxy \/ Tick \/ HeaderTimeout \/ BackendRefuses \/ HandleError
    \/ BackendHeaders \/ CommitHeaders \/ BackendChunk \/ BackendEOF \/ FinishCopy
    \/ BackendBreaks \/ AbortCopy

\* the goroutine of the request and the timer of the transport keep running
ProxyFairness ==
    /\ WF_vars(Tick)
    /\ WF_vars(HeaderTimeout)
    /\ WF_vars(HandleError)
    /\ WF_vars(CommitHeaders)
    /\ WF_vars(FinishCopy)
    /\ WF_vars(AbortCopy)

SpecProxy == InitProxy /\ [][NextProxy]_vars /\ ProxyFairness

(***************************************************************************)
(* The maintenanceResponseWriter on its own: the reverse proxy (or any     *)
(* other caller) makes an arbitrary sequence of WriteHeader and Write      *)
(* calls on the writer proxyToMaintenanceService has built.                *)
(***************************************************************************)
WriterConfigs ==
    { [CreateConfig EXCEPT !.MaintenanceService = "http://maintenance.local",
                           !.StatusCode = c] : c \in StatusCodes }

\* the status codes and the chunks the caller passes
PassedCodes == {200, 404, 500}
PassedChunks == {"first ", "second"}

InitWriter ==
    /\ cfg \in WriterConfigs
    /\ phase = "serving"
    /\ newErr = ""
    /\ m = NewHandler(cfg, NoFile).m
    /\ fs = NoFile
    /\ backend = BackendOK
    /\ orig = NoRequest
    /\ ex = NoExec
    /\ wr = NewMaintenanceResponseWriter(NewRecorder, NewHandler(cfg, NoFile).m.statusCode)
    /\ hist = <<>>
    /\ loads = <<>>
    /\ pc = NoPc
    /\ loc = NoLoc
    /\ mutex = FreeMutex
    /\ written = {}
    /\ px = NoProxy

\* the caller calls WriteHeader(code)
CallWriteHeader ==
    /\ Len(hist) < MaxCalls
    /\ \E code \in PassedCodes :
          /\ wr' = WriterWriteHeader(wr, code)
          /\ hist' = Append(hist, <<"WriteHeader", code>>)
    /\ UNCHANGED <<cfg, phase, newErr, m, fs, backend, orig, ex, loads, concVars, px>>

\* the caller calls Write(b)
CallWrite ==
    /\ Len(hist) < MaxCalls
    /\ \E b \in PassedChunks :
          /\ wr' = WriterWrite(wr, b)
          /\ hist' = Append(hist, <<"Write", b>>)
    /\ UNCHANGED <<cfg, phase, newErr, m, fs, backend, orig, ex, loads, concVars, px>>

NextWriter == CallWriteHeader \/ CallWrite

SpecWriter == InitWriter /\ [][NextWriter]_vars

(***************************************************************************)
(* Vocabulary of the properties.  The string relations are stated through  *)
(* concatenation, independently of strings.HasPrefix and HasSuffix, and    *)
(* the header lookup through case-insensitive header names.                *)
(***************************************************************************)
IsPrefixOf(pre, str) ==
    \E k \in 0..Len(str) : pre \o SubSeq(str, k + 1, Len(str)) = str

IsSuffixOf(suf, str) ==
    \E k \in 0..Len(str) : SubSeq(str, 1, k) \o suf = str

LowerCase(k) ==
    CASE k = "X-Maintenance-Bypass"   -> "x-maintenance-bypass"
      [] k = "Retry-After"            -> "retry-after"
      [] k = "X-Maintenance-Mode"     -> "x-maintenance-mode"
      [] k = "Content-Type"           -> "content-type"
      [] k = "Cache-Control"          -> "cache-control"
      [] k = "X-Content-Type-Options" -> "x-content-type-options"
      [] k = "X-Test-Header"          -> "x-test-header"
      [] OTHER -> k

\* the value a request carries under the configured bypass header, "" if none
BypassValueOf(req) ==
    LET ks == {k \in DOMAIN req.Header :
                  LowerCase(k) = LowerCase(cfg.BypassHeader) /\ req.Header[k] # <<>>}
    IN IF ks = {} THEN "" ELSE req.Header[CHOOSE k \in ks : TRUE][1]

CarriesBypassHeader(req) ==
    \E k \in DOMAIN req.Header :
        LowerCase(k) = LowerCase(cfg.BypassHeader) /\ req.Header[k] # <<>>

PrefixRule(req) ==
    \E i \in 1..Len(cfg.BypassPaths) : IsPrefixOf(cfg.BypassPaths[i], req.URL.Path)

FaviconRule(req) == cfg.BypassFavicon /\ IsSuffixOf("/favicon.ico", req.URL.Path)

HeaderRule(req) == BypassValueOf(req) = cfg.BypassHeaderValue

\* the reference predicate of the dispatch
ShouldBypass(req) ==
    ~cfg.Enabled \/ FaviconRule(req) \/ PrefixRule(req) \/ HeaderRule(req)

\* the status code in effect: 503 when the configuration leaves it 0
ConfiguredStatus == IF cfg.StatusCode = 0 THEN 503 ELSE cfg.StatusCode

NumSources ==
    Cardinality({i \in 1..3 :
        <<cfg.MaintenanceFilePath, cfg.MaintenanceContent, cfg.MaintenanceService>>[i] # ""})

\* a ServeHTTP call has just returned
Called == ~Idle

\* the call handed the request to the next handler, once, and did nothing else
PassedThrough ==
    ex.nextCalls = 1 /\ ex.maintCalls = 0 /\ ex.nextReq = <<orig>>

\* the call entered one maintenance responder, once, and not the next handler
GotMaintenance ==
    ex.nextCalls = 0 /\ ex.maintCalls = 1 /\ Len(ex.branch) = 1

\* the response the next handler produces on its own
NextAlone == RwWrite(RwWriteHeader(NewRecorder, NextHandler.status), NextHandler.body)

(***************************************************************************)
(* C1: one call of ServeHTTP invokes exactly one of the next handler and   *)
(* the maintenance responders (file, inline, proxy), exactly once, never   *)
(* both, for every request and configuration.                              *)
(***************************************************************************)
C1_ExactlyOneOutcome ==
    Called =>
        /\ ex.nextCalls + ex.maintCalls = 1
        /\ Len(ex.branch) = ex.maintCalls
        /\ Len(ex.nextReq) = ex.nextCalls
        /\ \A i \in 1..Len(ex.branch) : ex.branch[i] \in {"file", "inline", "proxy"}

\* a maintenance response under a configuration naming a file and inline content
C1_Witness ==
    /\ Called
    /\ cfg.MaintenanceFilePath # "" /\ cfg.MaintenanceContent # ""
    /\ ex.branch = <<"file">> /\ ex.nextCalls = 0

(***************************************************************************)
(* C2: in all three content modes a request that is not bypassed gets the  *)
(* configured status code (503 when the configuration leaves it 0),        *)
(* committed once, whatever the file holds or the backend answers.         *)
(***************************************************************************)
C2_StatusIsConfigured ==
    (Called /\ ex.maintCalls > 0) =>
        /\ ex.rw.code = ConfiguredStatus
        /\ ex.rw.commits = 1

\* the backend answered 200 and the client got 503
C2_Witness ==
    /\ Called
    /\ ex.branch = <<"proxy">>
    /\ backend.kind = "response" /\ backend.status = 200
    /\ ex.rw.code = 503

(***************************************************************************)
(* C3: with enabled=false every request is handed to the next handler and  *)
(* the response is the next handler's own: no Retry-After and no           *)
(* X-Maintenance-Mode, whatever the path, headers and content source.      *)
(***************************************************************************)
C3_DisabledPassesThrough ==
    (Called /\ ~cfg.Enabled) =>
        /\ PassedThrough
        /\ ex.rw = NextAlone
        /\ ex.rw.sent["Retry-After"] = <<>>
        /\ ex.rw.sent["X-Maintenance-Mode"] = <<>>

\* a disabled handler passing on a request no bypass rule matches
C3_Witness ==
    /\ Called /\ ~cfg.Enabled
    /\ ~FaviconRule(orig) /\ ~PrefixRule(orig) /\ ~HeaderRule(orig)
    /\ cfg.MaintenanceFilePath # ""
    /\ ex.rule = "disabled"

(***************************************************************************)
(* C4: a request carrying the bypass header with exactly the configured    *)
(* value reaches the next handler unmodified, and the request object (its  *)
(* URL included) is the same after ServeHTTP as before.                    *)
(***************************************************************************)
C4_HeaderBypass ==
    (Called /\ CarriesBypassHeader(orig) /\ BypassValueOf(orig) = cfg.BypassHeaderValue) =>
        /\ PassedThrough
        /\ ex.req = orig
        /\ ex.req.URL = orig.URL

\* the header rule fires, the header name being configured in lower case
C4_Witness ==
    /\ Called
    /\ CarriesBypassHeader(orig) /\ BypassValueOf(orig) = cfg.BypassHeaderValue
    /\ cfg.BypassHeader = "x-maintenance-bypass"
    /\ ex.rule = "header"

(***************************************************************************)
(* C5: a request whose path has a configured bypass prefix is passed to    *)
(* the next handler, with or without the bypass header; an enabled handler *)
(* gives the maintenance response to a path no prefix and no other rule    *)
(* matches.                                                                *)
(***************************************************************************)
C5_PrefixBypass ==
    /\ (Called /\ PrefixRule(orig)) => PassedThrough
    /\ (Called /\ cfg.Enabled /\ ~PrefixRule(orig) /\ ~FaviconRule(orig) /\ ~HeaderRule(orig))
          => GotMaintenance

\* /health/live under the prefix /health, without the bypass header
C5_Witness ==
    /\ Called
    /\ orig.URL.Path = "/health/live" /\ cfg.BypassPaths = <<"/health">>
    /\ ~CarriesBypassHeader(orig)
    /\ ex.rule = "path"

(***************************************************************************)
(* C6: enabled and bypassFavicon: every path ending in /favicon.ico is     *)
(* passed to the next handler; with bypassFavicon false and no other rule  *)
(* matching, the same request gets the maintenance response.               *)
(***************************************************************************)
C6_FaviconBypass ==
    /\ (Called /\ cfg.Enabled /\ cfg.BypassFavicon /\ IsSuffixOf("/favicon.ico", orig.URL.Path))
          => PassedThrough
    /\ (Called /\ cfg.Enabled /\ ~cfg.BypassFavicon /\ IsSuffixOf("/favicon.ico", orig.URL.Path)
           /\ ~PrefixRule(orig) /\ ~HeaderRule(orig))
          => GotMaintenance

\* a favicon below a directory passes by the favicon rule
C6_Witness ==
    /\ Called
    /\ orig.URL.Path = "/static/favicon.ico"
    /\ ex.rule = "favicon"

(***************************************************************************)
(* C7: the dispatch equals the reference predicate: passed through iff     *)
(* disabled, or favicon rule, or some prefix matches, or the header value  *)
(* equals the configured one; maintenance otherwise.  Evaluating the four  *)
(* checks of the code in any order gives the same outcome.                 *)
(***************************************************************************)
Rules == {"disabled", "favicon", "path", "header"}

RuleOrders == {o \in [1..4 -> Rules] : \A i, j \in 1..4 : o[i] = o[j] => i = j}

\* a check of ServeHTTP, applied to the request of the call
RuleFires(r) ==
    CASE r = "disabled" -> Disabled(m)
      [] r = "favicon"  -> FaviconBypass(m, orig)
      [] r = "path"     -> PathBypass(m.bypassPaths, orig.URL.Path)
      [] r = "header"   -> HeaderBypass(m, orig)

RECURSIVE FirstMatch(_)
\* the first check of the order that fires, "" if none does
FirstMatch(order) ==
    IF order = <<>> THEN ""
    ELSE IF RuleFires(Head(order)) THEN Head(order)
    ELSE FirstMatch(Tail(order))

C7_DispatchIsReference ==
    Called =>
        /\ PassedThrough <=> ShouldBypass(orig)
        /\ GotMaintenance <=> ~ShouldBypass(orig)
        /\ ex.rule = FirstMatch(<<"disabled", "favicon", "path", "header">>)
        /\ \A o \in RuleOrders : (FirstMatch(o) # "") <=> PassedThrough

\* three rules match the same request: the orders differ in the rule, not in the outcome
C7_Witness ==
    /\ Called
    /\ FaviconRule(orig) /\ PrefixRule(orig) /\ HeaderRule(orig)
    /\ ex.rule = "favicon"
    /\ FirstMatch(<<"header", "path", "favicon", "disabled">>) = "header"

(***************************************************************************)
(* C8: every maintenance response of ServeHTTP carries Retry-After: 3600   *)
(* and X-Maintenance-Mode: true (as the first value of each header), in    *)
(* the three content modes, on success as on failure.                      *)
(***************************************************************************)
C8_MaintenanceHeaders ==
    (Called /\ ex.maintCalls > 0) =>
        /\ ex.rw.code # 0
        /\ ex.rw.sent["Retry-After"] # <<>>
        /\ ex.rw.sent["Retry-After"][1] = "3600"
        /\ ex.rw.sent["X-Maintenance-Mode"] # <<>>
        /\ ex.rw.sent["X-Maintenance-Mode"][1] = "true"

\* the reload of the file failed while the request was served
C8_Witness ==
    /\ Called
    /\ ex.branch = <<"file">>
    /\ ex.rw.body = <<"Service Temporarily Unavailable\n">>
    /\ ex.rw.sent["Retry-After"] = <<"3600">>

C10_NoSourceRejected ==
    /\ (phase # "config" /\ NumSources = 0) =>
          /\ phase = "failed"
          /\ newErr = "either maintenanceService, maintenanceFilePath, or maintenanceContent must be specified"
          /\ m = ZeroMaintenanceBypass
    /\ (phase # "config" /\ cfg = CreateConfig) => phase = "failed"
    /\ Called => phase = "serving"

\* New has been applied to CreateConfig() and failed
C10_Witness ==
    /\ cfg = CreateConfig
    /\ phase = "failed"
    /\ newErr # ""

(***************************************************************************)
(* C11: in file mode, when the initial load fails because the file is      *)
(* missing, is a directory, cannot be read or is empty, New returns an     *)
(* error and no handler; no request is ever served by a handler whose      *)
(* cache was never loaded: a failed New stays failed, ServeHTTP runs only  *)
(* on a handler New returned, and such a handler in file mode holds a      *)
(* non-empty cached content.                                               *)
(***************************************************************************)
FileUnusable(f) ==
    \/ f.kind \in {"missing", "dir", "unreadable"}
    \/ f.kind = "file" /\ f.content = ""

C11_FailedLoadNoHandler ==
    /\ [][(phase = "config" /\ phase' # "config" /\ cfg.MaintenanceFilePath # ""
            /\ FileUnusable(fs)) =>
              (/\ phase' = "failed"
               /\ m' = ZeroMaintenanceBypass
               /\ HasPrefix(newErr', "failed to load maintenance file: "))]_vars
    /\ [][phase = "failed" => (phase' = "failed" /\ m' = ZeroMaintenanceBypass)]_vars
    /\ [](Called => phase = "serving")
    /\ []((phase = "serving" /\ cfg.MaintenanceFilePath # "") =>
              (/\ m.maintenanceFileContent # Nil
               /\ Len(BytesToString(m.maintenanceFileContent)) > 0))

\* New has been applied while the file was empty, and has failed
C11_Witness ==
    /\ phase = "failed"
    /\ newErr = "failed to load maintenance file: maintenance file is empty: /etc/traefik/maintenance.html"
    /\ m = ZeroMaintenanceBypass

(***************************************************************************)
(* C12: in remote mode (the service address is the only content source)    *)
(* New fails exactly when the address cannot be parsed as a URL or its     *)
(* scheme or its host is empty; otherwise New returns a handler whose      *)
(* target is that URL.                                                     *)
(***************************************************************************)
RemoteMode ==
    /\ cfg.MaintenanceFilePath = ""
    /\ cfg.MaintenanceContent = ""
    /\ cfg.MaintenanceService # ""

\* the address reads scheme "://" host, with neither part empty
HasSchemeAndHost(s) ==
    \E k \in 2..Len(s) :
        /\ Len(s) >= k + 3
        /\ SubSeq(s, k, k + 2) = "://"
        /\ SubSeq(s, k + 3, k + 3) # "/"

URLString(u) == u.Scheme \o "://" \o u.Host \o u.Path

C12_ServiceAddressValidated ==
    (phase # "config" /\ RemoteMode) =>
        /\ phase = "failed" <=> ~HasSchemeAndHost(cfg.MaintenanceService)
        /\ phase = "failed" =>
              /\ m = ZeroMaintenanceBypass
              /\ \/ HasPrefix(newErr, "invalid maintenance service URL: ")
                 \/ newErr = "maintenance service URL must include scheme and host"
        /\ phase = "serving" =>
              /\ newErr = ""
              /\ ~m.maintenanceService.nil
              /\ URLString(m.maintenanceService) = cfg.MaintenanceService

\* New has accepted a service address that carries a path
C12_Witness ==
    /\ phase = "serving"
    /\ RemoteMode
    /\ m.maintenanceService.Host = "maintenance.local"
    /\ m.maintenanceService.Path = "/pages"

(***************************************************************************)
(* C13: the resolved status code of a handler is 503 when the configured   *)
(* one is 0 and the configured one otherwise; the resolved content type    *)
(* is 'text/html; charset=utf-8' when the configured one is empty and the  *)
(* configured one otherwise.  The inline responder sends both.             *)
(***************************************************************************)
ConfiguredContentType ==
    IF cfg.ContentType = "" THEN "text/html; charset=utf-8" ELSE cfg.ContentType

C13_ResolvedDefaults ==
    /\ phase = "serving" =>
          /\ cfg.StatusCode = 0 => m.statusCode = 503
          /\ cfg.StatusCode # 0 => m.statusCode = cfg.StatusCode
          /\ cfg.ContentType = "" => m.contentType = "text/html; charset=utf-8"
          /\ cfg.ContentType # "" => m.contentType = cfg.ContentType
    /\ (Called /\ ex.branch = <<"inline">>) =>
          /\ ex.rw.code = ConfiguredStatus
          /\ HeaderGet(ex.rw.sent, "Content-Type") = ConfiguredContentType

\* an inline response has been sent under an empty configured content type
C13_Witness ==
    /\ Called
    /\ cfg.ContentType = ""
    /\ ex.branch = <<"inline">>
    /\ HeaderGet(ex.rw.sent, "Content-Type") = "text/html; charset=utf-8"

ReloadFails ==
    \/ fs.kind = "missing"
    \/ fs.modTime > m.maintenanceFileLastMod /\ FileUnusable(fs)

C17_ReloadFailureAnswered ==
    (Called /\ ex.branch = <<"file">> /\ ReloadFails) =>
        /\ ex.rw.commits = 1
        /\ ex.rw.code = ConfiguredStatus
        /\ ex.rw.sent["X-Maintenance-Mode"] = <<"true">>
        /\ ex.rw.body = <<"Service Temporarily Unavailable\n">>
        /\ ex.nextCalls = 0

\* the file was deleted after the initial load and a request has been served
C17_Witness ==
    /\ Called
    /\ ex.branch = <<"file">>
    /\ fs.kind = "missing"
    /\ ex.rw.commits = 1
    /\ ex.rw.body = <<"Service Temporarily Unavailable\n">>

Contains(str, sub) ==
    \E k \in 1..(Len(str) - Len(sub) + 1) : SubSeq(str, k, k + Len(sub) - 1) = sub

C20_TransportErrorHidden ==
    (Called /\ ex.branch = <<"proxy">> /\ backend.kind = "error") =>
        /\ ex.rw.commits = 1
        /\ ex.rw.code = ConfiguredStatus
        /\ ex.rw.sent["X-Maintenance-Mode"] = <<"true">>
        /\ ex.rw.sent["Retry-After"] = <<"3600">>
        /\ ex.rw.body = <<"Service temporarily unavailable">>
        /\ \A i \in 1..Len(ex.rw.body) : ~Contains(ex.rw.body[i], backend.err)
        /\ \A k \in HeaderKeys : \A i \in 1..Len(ex.rw.sent[k]) :
              ~Contains(ex.rw.sent[k][i], backend.err)

\* the round trip to the backend has timed out
C20_Witness ==
    /\ Called
    /\ ex.branch = <<"proxy">>
    /\ backend.err = "net/http: timeout awaiting response headers"
    /\ ex.rw.body = <<"Service temporarily unavailable">>

(***************************************************************************)
(* C19: for any sequence of WriteHeader(code) and Write(bytes) calls on a  *)
(* maintenanceResponseWriter, the underlying writer's WriteHeader is       *)
(* called exactly once, as the first call the underlying writer receives,  *)
(* at the first WriteHeader or Write, with the configured status code      *)
(* whatever code was passed; later WriteHeader calls change nothing; the   *)
(* bytes of every Write reach the underlying writer in order.              *)
(***************************************************************************)
WriteHeaderCalls(log) == SelectSeq(log, LAMBDA c : c[1] = "WriteHeader")

WriteCalls(log) == SelectSeq(log, LAMBDA c : c[1] = "Write")

C19_WriterCommitsOnce ==
    /\ [](hist = <<>> => wr.ResponseWriter.calls = <<>>)
    /\ [](hist # <<>> =>
            /\ Len(WriteHeaderCalls(wr.ResponseWriter.calls)) = 1
            /\ wr.ResponseWriter.calls[1] = <<"WriteHeader", ConfiguredStatus>>
            /\ wr.ResponseWriter.code = ConfiguredStatus
            /\ wr.ResponseWriter.commits = 1)
    /\ [](/\ WriteCalls(wr.ResponseWriter.calls) = WriteCalls(hist)
          /\ wr.ResponseWriter.body =
                [i \in 1..Len(WriteCalls(hist)) |-> WriteCalls(hist)[i][2]])
    /\ [][(hist # <<>> /\ hist' # hist /\ hist'[Len(hist')][1] = "WriteHeader") =>
            wr' = wr]_vars

\* Write, then WriteHeader(404), then Write again, under the default status
C19_Witness ==
    /\ hist = <<<<"Write", "first ">>, <<"WriteHeader", 404>>, <<"Write", "second">>>>
    /\ wr.ResponseWriter.code = 503
    /\ wr.ResponseWriter.body = <<"first ", "second">>

(***************************************************************************)
(* C14 as stated: two calls of loadMaintenanceFile with no modification of *)
(* the file in between leave the cached modification time and content     *)
(* unchanged, and the second call does not read the file contents again.   *)
(***************************************************************************)
C14_SecondLoadNeverReads ==
    \A i \in 2..Len(loads) :
        /\ loads[i].after.maintenanceFileLastMod = loads[i - 1].after.maintenanceFileLastMod
        /\ loads[i].after.maintenanceFileContent = loads[i - 1].after.maintenanceFileContent
        /\ loads[i].reads = 0

(***************************************************************************)
(* C14 amended: two calls of loadMaintenanceFile with no modification of   *)
(* the file in between leave the cached modification time and content      *)
(* unchanged.  When the first call succeeded the second call does not read *)
(* the file contents again.  When the first call failed on reading the     *)
(* file or on an empty file, the second call reads the file contents       *)
(* again and fails in the same way.                                        *)
(***************************************************************************)
C14_SecondLoadIdempotent ==
    \A i \in 2..Len(loads) :
        /\ loads[i].before = loads[i - 1].after
        /\ loads[i].after = loads[i - 1].after
        /\ loads[i].err = loads[i - 1].err
        /\ loads[i - 1].err = "" => loads[i].reads = 0
        /\ (loads[i - 1].err # "" /\ loads[i - 1].reads = 1) => loads[i].reads = 1

\* the first call has read the file and filled the cache, the second has
\* returned without reading
C14_Witness ==
    /\ Len(loads) = 2
    /\ loads[1].err = ""
    /\ loads[1].reads = 1
    /\ loads[1].after.maintenanceFileContent = Bytes("<html>version 2</html>")
    /\ loads[2].err = ""
    /\ loads[2].reads = 0
    /\ loads[2].after = loads[1].after

(***************************************************************************)
(* C15: content C written to the file and loaded is what maintenance       *)
(* requests serve; once the file is updated to C' with a later             *)
(* modification time, a request that starts while no reload is under way   *)
(* and during which the file is not modified again serves C'; and no       *)
(* request running concurrently with a reload ever gets a body that is not *)
(* one of the non-empty contents the file has held.                        *)
(***************************************************************************)
C15_RoundTripNoMixedBody ==
    \A p \in Procs :
        /\ (pc[p] = "done" /\ loc[p].err = "") =>
              /\ loc[p].body # ""
              /\ loc[p].body \in written
        /\ (pc[p] = "done" /\ loc[p].expect # "" /\ ~loc[p].touched) =>
              /\ loc[p].err = ""
              /\ loc[p].body = loc[p].expect

\* two requests have been answered around an update of the file: one with
\* the old content, the other, having reloaded the file, with the new one
C15_Witness ==
    /\ pc["r1"] = "done"
    /\ loc["r1"].reads = 1
    /\ loc["r1"].expect = "<html>version 2</html>"
    /\ loc["r1"].body = "<html>version 2</html>"
    /\ pc["r2"] = "done"
    /\ loc["r2"].err = ""
    /\ loc["r2"].body = "<html>v1</html>"

(***************************************************************************)
(* C21: every request that enters the maintenance path eventually gets a   *)
(* committed response, the status line written and the handler returned,   *)
(* whatever the maintenance service does: also when it never answers, and  *)
(* when it sends its headers and then stalls or fails while sending the    *)
(* body.                                                                   *)
(***************************************************************************)
ProxyEnded == px.pc \in {"returned", "aborted"}

C21_AlwaysAnswered ==
    (px.pc = "roundTrip") ~> (ProxyEnded /\ px.w.ResponseWriter.code # 0)

\* what does hold: the status line is eventually committed, with the
\* configured code
C21_StatusLineCommitted ==
    (px.pc = "roundTrip") ~> (px.w.ResponseWriter.code = ConfiguredStatus)

FileReloadFailed == ex.branch = <<"file">> /\ ReloadFails

InlineMode == cfg.MaintenanceFilePath = "" /\ cfg.MaintenanceContent # ""

\* what can be on disk, and what the file cache can hold
FileStates ==
    {NoFile} \cup
    [kind : {"file", "dir", "unreadable"}, content : FileContents, modTime : 1..MaxModTime]

CacheStates == {Nil} \cup {Bytes(c) : c \in FileContents \ {""}}

C23_InlineLiteral ==
    (Called /\ InlineMode /\ ~ShouldBypass(orig)) =>
        /\ ex.branch = <<"inline">>
        /\ ex.rw.body = <<cfg.MaintenanceContent>>
        /\ ex.rw.code = ConfiguredStatus
        /\ ex.reads = 0 /\ ex.stats = 0 /\ ex.locks = 0
        /\ ex.m = NewInstance(cfg)
        /\ \A f \in FileStates, c \in CacheStates, t \in 0..MaxModTime :
              LET mm == [m EXCEPT !.maintenanceFileContent = c,
                                  !.maintenanceFileLastMod = t]
              IN ServeHTTP(mm, f, NewRecorder, orig, NextHandler, backend).rw = ex.rw

\* an inline page has been served to a request that no rule lets through
C23_Witness ==
    /\ Called
    /\ InlineMode
    /\ ~ShouldBypass(orig)
    /\ orig.URL.Path = "/"
    /\ ex.rw.body = <<"<html>down</html>">>
    /\ ex.locks = 0

(***************************************************************************)
(* C24: a call of loadMaintenanceFile that returns an error (the stat      *)
(* failed, the read failed or the file is empty) leaves the cached content *)
(* and the cached modification time exactly as they were before the call.  *)
(***************************************************************************)
C24_FailedLoadKeepsCache ==
    \A i \in 1..Len(loads) :
        loads[i].err # "" =>
            /\ loads[i].after.maintenanceFileContent = loads[i].before.maintenanceFileContent
            /\ loads[i].after.maintenanceFileLastMod = loads[i].before.maintenanceFileLastMod
            /\ loads[i].after = loads[i].before
            /\ m = loads[i].before

\* the cache holds a page, the file has then been emptied at a later time
\* and the reload has read it and failed
C24_Witness ==
    /\ Len(loads) >= 1
    /\ loads[1].before.maintenanceFileContent = Bytes("<html>v1</html>")
    /\ loads[1].before.maintenanceFileLastMod = 1
    /\ fs = [kind |-> "file", content |-> "", modTime |-> 2]
    /\ loads[1].reads = 1
    /\ loads[1].err # ""
    /\ m.maintenanceFileContent = Bytes("<html>v1</html>")
    /\ m.maintenanceFileLastMod = 1

(***************************************************************************)
(* C29: loadMaintenanceFile re-reads the file and replaces the cache only  *)
(* when the file's modification time is strictly after the cached one.  A  *)
(* file whose content differs from the cache but whose modification time   *)
(* is not after the cached time is not read, the call succeeds and the     *)
(* cache keeps the old content.                                            *)
(***************************************************************************)
C29_ReloadOnlyWhenNewer ==
    \A i \in 1..Len(loads) :
        LET before == loads[i].before
            after  == loads[i].after
        IN /\ (loads[i].reads = 1 \/ after # before) =>
                 /\ fs.kind # "missing"
                 /\ fs.modTime > before.maintenanceFileLastMod
           /\ (/\ before.maintenanceFileContent # Nil
               /\ fs.kind # "missing"
               /\ fs.modTime <= before.maintenanceFileLastMod) =>
                 /\ loads[i].reads = 0
                 /\ loads[i].err = ""
                 /\ after = before

\* the cache holds version 1 of time 2; the file now holds version 2 with
\* the same time, and a load has left the cache alone
C29_Witness ==
    /\ Len(loads) >= 1
    /\ loads[1].before.maintenanceFileContent = Bytes("<html>v1</html>")
    /\ loads[1].before.maintenanceFileLastMod = 2
    /\ fs = [kind |-> "file", content |-> "<html>version 2</html>", modTime |-> 2]
    /\ loads[1].reads = 0
    /\ loads[1].err = ""
    /\ m.maintenanceFileContent = Bytes("<html>v1</html>")

(***************************************************************************)
(* C30: a request that is not bypassed executes exactly one content        *)
(* branch, the first of file, inline, proxy whose source is configured;    *)
(* New validated the source of that same branch and no other.  The proxy   *)
(* branch runs only with a stored service URL that has a scheme and a      *)
(* host, the file branch only after New's initial load filled the cache.   *)
(***************************************************************************)
\* the branch New validated, read from what New stored in the instance
ValidatedBranch ==
    CASE m.maintenanceFileContent # Nil -> "file"
      [] ~m.maintenanceService.nil     -> "proxy"
      [] OTHER                         -> "inline"

C30_OneBranchByPrecedence ==
    (Called /\ ~ShouldBypass(orig)) =>
        /\ ex.maintCalls = 1
        /\ Len(ex.branch) = 1
        /\ ex.branch[1] = (IF cfg.MaintenanceFilePath # "" THEN "file"
                           ELSE IF cfg.MaintenanceContent # "" THEN "inline"
                           ELSE "proxy")
        /\ ex.branch[1] = ValidatedBranch
        /\ ex.branch[1] = "proxy" =>
              /\ ~m.maintenanceService.nil
              /\ m.maintenanceService.Scheme # ""
              /\ m.maintenanceService.Host # ""
              /\ m.maintenanceService = UrlParse(cfg.MaintenanceService).url
        /\ ex.branch[1] = "file" =>
              /\ m.maintenanceFileContent # Nil
              /\ m.maintenanceService.nil
        /\ ex.branch[1] = "inline" =>
              /\ m.maintenanceFileContent = Nil
              /\ m.maintenanceService.nil

\* all three sources are configured and the request got the file branch
C30_Witness ==
    /\ Called
    /\ ~ShouldBypass(orig)
    /\ NumSources = 3
    /\ ex.branch = <<"file">>
    /\ m.maintenanceService.nil
    /\ ex.rw.body = <<"<html>v1</html>">>

(***************************************************************************)
(* C25: the cached content and the cached modification time are replaced   *)
(* together inside one exclusive critical section.  The two fields change  *)
(* only while the request changing them holds the exclusive lock and no    *)
(* request holds the shared lock; when that request releases the lock both *)
(* fields hold the values of its own stat and read; and a request holding  *)
(* the shared lock never finds a replacement under way: what it copies is  *)
(* one whole content the file has held, never part of one.                 *)
(***************************************************************************)
\* a request is between the first and the last store of a replacement
SwapUnderWay == \E q \in Procs : pc[q] \in {"storeLen", "storeModTime"}

HoldsShared(p) == pc[p] \in {"readCache", "runlock"}

WholeContents == {Bytes(c) : c \in written \ {""}}

C25_SwapAllOrNothing ==
    /\ [](\A p \in Procs :
            /\ pc[p] \in {"storePtr", "storeLen", "storeModTime"} =>
                  mutex.writer = p /\ mutex.readers = {}
            /\ (pc[p] = "unlock" /\ loc[p].content # "") =>
                  /\ m.maintenanceFileContent = Bytes(loc[p].content)
                  /\ m.maintenanceFileLastMod = loc[p].modTime
            /\ HoldsShared(p) =>
                  /\ p \in mutex.readers
                  /\ mutex.writer = ""
                  /\ ~SwapUnderWay
                  /\ m.maintenanceFileContent \in WholeContents
            /\ pc[p] \in {"runlock", "respond"} => loc[p].cached \in WholeContents)
    /\ [][m' # m => \E p \in Procs :
                       /\ mutex.writer = p
                       /\ mutex.readers = {}
                       /\ mutex' = mutex]_vars

\* a request has copied version 2 under the shared lock after a replacement,
\* while the other request waits for the exclusive lock
C25_Witness ==
    /\ pc["r1"] = "runlock"
    /\ loc["r1"].cached = Bytes("<html>version 2</html>")
    /\ m.maintenanceFileLastMod = 2
    /\ pc["r2"] = "lock"
    /\ mutex.readers = {"r1"}

(***************************************************************************)
(* C26 as stated: a reload holds the exclusive file lock only for the swap *)
(* of content and modification time in memory; a request about to stat the *)
(* file or to read its contents does not hold the exclusive lock.          *)
(***************************************************************************)
C26_DiskAccessOutsideLock ==
    \A p \in Procs : pc[p] \in {"stat", "read"} => mutex.writer # p

(***************************************************************************)
(* C27 as stated: concurrent file-mode requests that only serve the cached *)
(* content, the file being unchanged on disk, do not block each other:     *)
(* none of them waits for the file lock while another of them holds it.    *)
(***************************************************************************)
\* the file is the one the cache was loaded from, and has been all along
\* the requests under way
FileUnchanged ==
    /\ fs.kind = "file"
    /\ fs.modTime <= m.maintenanceFileLastMod
    /\ \A p \in Procs : ~loc[p].touched

\* p cannot take its next step because q holds the lock
WaitsFor(p, q) ==
    \/ pc[p] = "lock" /\ (mutex.writer = q \/ q \in mutex.readers)
    \/ pc[p] = "rlock" /\ mutex.writer = q

C27_CachedRequestsNeverWait ==
    FileUnchanged => \A p, q \in Procs : p # q => ~WaitsFor(p, q)

(***************************************************************************)
(* C28: a request that writes its response, the page or the error answer,  *)
(* holds the file lock neither shared nor exclusive; the lock is held only *)
(* by requests inside loadMaintenanceFile or between RLock and RUnlock,    *)
(* and a request that has left loadMaintenanceFile with an error has       *)
(* released it, so the lock is free whenever no request is inside one of   *)
(* the two sections.                                                       *)
(***************************************************************************)
InExclusiveSection(p) ==
    pc[p] \in {"stat", "read", "storePtr", "storeLen", "storeModTime", "unlock"}

InSharedSection(p) == pc[p] \in {"readCache", "runlock"}

C28_LockReleasedBeforeWriting ==
    /\ \A p \in Procs :
          /\ mutex.writer = p <=> InExclusiveSection(p)
          /\ p \in mutex.readers <=> InSharedSection(p)
          /\ pc[p] \in {"fail", "respond", "done"} =>
                mutex.writer # p /\ p \notin mutex.readers
    /\ mutex.writer \in Procs \cup {""}
    /\ mutex.readers \subseteq Procs
    /\ (\A p \in Procs : ~InExclusiveSection(p) /\ ~InSharedSection(p)) => mutex = FreeMutex

\* the reload of one request has failed and that request is writing its
\* error answer, while the other request has taken the exclusive lock
C28_Witness ==
    /\ pc["r1"] = "fail"
    /\ loc["r1"].err # ""
    /\ mutex.writer = "r2"
    /\ pc["r2"] = "stat"

(***************************************************************************)
(* C31: whether a request is passed through or answered with maintenance   *)
(* is a function of the configuration and of that request alone: whatever  *)
(* requests the handler has served before, whatever its file cache holds   *)
(* and whatever is on disk, a handler of the same configuration decides    *)
(* the same for the same request.                                          *)
(***************************************************************************)
Decision(e) == IF e.nextCalls = 1 /\ e.maintCalls = 0 THEN "PASS_THROUGH" ELSE "MAINTENANCE"

\* a missing file, the newest file and a file that cannot be read
DiskSamples ==
    {NoFile,
     [kind |-> "file", content |-> "<html>version 2</html>", modTime |-> MaxModTime],
     [kind |-> "unreadable", content |-> "<html>v1</html>", modTime |-> MaxModTime]}

C31_DecisionHistoryFree ==
    Called =>
        /\ Decision(ex) = (IF ShouldBypass(orig) THEN "PASS_THROUGH" ELSE "MAINTENANCE")
        /\ \A f \in DiskSamples, c \in CacheStates, t \in {0, MaxModTime} :
              LET other == [m EXCEPT !.maintenanceFileContent = c,
                                     !.maintenanceFileLastMod = t]
              IN Decision(ServeHTTP(other, f, NewRecorder, orig, NextHandler, backend))
                   = Decision(ex)

\* the handler has reloaded the file in an earlier request and now answers
\* a request with maintenance, as a fresh handler would
C31_Witness ==
    /\ Called
    /\ m.maintenanceFileLastMod = 2
    /\ m.maintenanceFileContent = Bytes("<html>version 2</html>")
    /\ fs.kind = "missing"
    /\ Decision(ex) = "MAINTENANCE"
    /\ Decision(ServeHTTP(NewInstance(cfg), fs, NewRecorder, orig, NextHandler, backend))
          = "MAINTENANCE"

(***************************************************************************)
(* C32: a request that is passed through leaves everything else as it was: *)
(* the response is exactly what the next handler writes, with no header of *)
(* the middleware; the maintenance file is neither statted nor read and    *)
(* the file lock is not taken; the instance, its file cache included, is   *)
(* the same after the call as before; and the next handler is called with  *)
(* the request it was given.                                               *)
(***************************************************************************)
C32_PassThroughFrame ==
    /\ []((Called /\ PassedThrough) =>
            /\ ex.rw = NextAlone
            /\ ex.rw.sent["X-Maintenance-Mode"] = <<>>
            /\ ex.rw.sent["Retry-After"] = <<>>
            /\ ex.rw.sent["Cache-Control"] = <<>>
            /\ ex.stats = 0 /\ ex.reads = 0 /\ ex.locks = 0
            /\ ex.nextReq = <<orig>>
            /\ ex.req = orig)
    /\ [][(Idle /\ ~Idle' /\ ex'.nextCalls = 1) => (m' = m /\ ex'.m = m)]_vars

\* the file on disk is newer than the cache and a request carrying the
\* bypass header has been passed through without a reload
C32_Witness ==
    /\ Called
    /\ PassedThrough
    /\ cfg.Enabled
    /\ ex.rule = "header"
    /\ fs.kind = "file"
    /\ m.maintenanceFileContent = Bytes("<html>v1</html>")
    /\ fs.content = "<html>version 2</html>"
    /\ fs.modTime > m.maintenanceFileLastMod

(***************************************************************************)
(* C33: for a request that does not carry the bypass header the header     *)
(* rule compares the empty string with the configured value, so it fires   *)
(* exactly when the configured bypassHeaderValue is empty.  With an empty  *)
(* configured value every request lacking the header, maintenance being    *)
(* enabled, is passed through and gets the next handler's response, never  *)
(* the maintenance response; with a non-empty configured value such a      *)
(* request is passed through only by the favicon or the prefix rule.       *)
(***************************************************************************)
C33_MissingHeaderIsEmptyString ==
    (Called /\ cfg.Enabled /\ ~CarriesBypassHeader(orig)) =>
        /\ HeaderGet(orig.Header, cfg.BypassHeader) = ""
        /\ HeaderBypass(m, orig) <=> cfg.BypassHeaderValue = ""
        /\ cfg.BypassHeaderValue = "" =>
              /\ PassedThrough
              /\ ex.maintCalls = 0
              /\ ex.rw = NextAlone
              /\ ex.rw.sent["X-Maintenance-Mode"] = <<>>
        /\ cfg.BypassHeaderValue # "" =>
              (PassedThrough <=> (FaviconRule(orig) \/ PrefixRule(orig)))

\* the configured value is empty and a plain request for the site's root
\* has reached the next handler through the header rule
C33_Witness ==
    /\ Called
    /\ cfg.Enabled
    /\ cfg.BypassHeaderValue = ""
    /\ ~CarriesBypassHeader(orig)
    /\ orig.URL.Path = "/"
    /\ ex.rule = "header"
    /\ PassedThrough

(***************************************************************************)
(* C34: once New has succeeded in file mode the cached content is non-nil  *)
(* and non-empty in every state that follows: no reload, successful or     *)
(* failed, installs empty content.                                         *)
(***************************************************************************)
FileMode == cfg.MaintenanceFilePath # ""

C34_CacheNeverEmpty ==
    (phase = "serving" /\ FileMode) =>
        /\ m.maintenanceFileContent # Nil
        /\ Len(BytesToString(m.maintenanceFileContent)) > 0
        /\ Called => ex.m.maintenanceFileContent = m.maintenanceFileContent

\* the file has been emptied at a later time, a request has read it, and
\* the cache still holds the page
C34_Witness ==
    /\ phase = "serving"
    /\ Called
    /\ ex.branch = <<"file">>
    /\ ex.reads = 1
    /\ fs = [kind |-> "file", content |-> "", modTime |-> 2]
    /\ m.maintenanceFileContent = Bytes("<html>v1</html>")
    /\ m.maintenanceFileLastMod = 1

(***************************************************************************)
(* C35: the cached modification time never decreases.  Under every         *)
(* interleaving of concurrent requests and changes of the file, a request  *)
(* that is replacing the cache carries a modification time strictly after  *)
(* the cached one, and every step that changes maintenanceFileLastMod      *)
(* increases it.                                                           *)
(***************************************************************************)
C35_ModTimeMonotone ==
    /\ [](\A p \in Procs :
            pc[p] \in {"read", "storePtr", "storeLen", "storeModTime"} =>
                loc[p].modTime > m.maintenanceFileLastMod)
    /\ [][m'.maintenanceFileLastMod >= m.maintenanceFileLastMod]_vars
    /\ [][m'.maintenanceFileContent # m.maintenanceFileContent =>
            \E p \in Procs : /\ mutex.writer = p
                              /\ loc[p].modTime > m.maintenanceFileLastMod]_vars

\* the cache holds the file of time 2; the file has since been put back to
\* time 1 with another content, and a request has statted it and left the
\* cache alone
C35_Witness ==
    /\ m.maintenanceFileLastMod = 2
    /\ fs.kind = "file"
    /\ fs.modTime = 1
    /\ BytesToString(m.maintenanceFileContent) # fs.content
    /\ pc["r1"] = "rlock"
    /\ loc["r1"].err = ""
    /\ ~loc["r1"].touched

(***************************************************************************)
(* C36: while the file is modified concurrently, the content put in the    *)
(* cache is never older than the file version whose modification time is   *)
(* put there with it.  The stat comes before the read, so the content a    *)
(* reload stores is one the file has held since that reload's stat: the    *)
(* content of the version statted or, when a write landed in between, of a *)
(* later one; and the time stored with it is the time of the stat.         *)
(***************************************************************************)
Replacing(p) == pc[p] \in {"storePtr", "storeLen", "storeModTime"}

Replaced(p) == pc[p] = "unlock" /\ loc[p].content # ""

C36_ContentNotOlderThanTime ==
    \A p \in Procs :
        /\ pc[p] = "read" => (fs.kind = "file" => fs.content \in loc[p].since)
        /\ (Replacing(p) \/ Replaced(p)) =>
              /\ loc[p].since = {loc[p].content}
              /\ loc[p].modTime > 0
        /\ Replaced(p) =>
              /\ BytesToString(m.maintenanceFileContent) \in loc[p].since
              /\ m.maintenanceFileLastMod = loc[p].modTime

\* version 1 of time 2 was statted, version 2 was written before the read,
\* and the cache now pairs version 2 with the time of the stat
C36_Witness ==
    /\ Replaced("r1")
    /\ loc["r1"].touched
    /\ loc["r1"].expect = "<html>v1</html>"
    /\ m.maintenanceFileContent = Bytes("<html>version 2</html>")
    /\ m.maintenanceFileLastMod = 2
    /\ fs = [kind |-> "file", content |-> "<html>version 2</html>", modTime |-> 2]

(***************************************************************************)
(* C37: a failed reload is not sticky.  Whatever reloads have failed       *)
(* before, a file-mode request that is not bypassed and finds the file     *)
(* readable and non-empty with a modification time after the cached one    *)
(* reads it, replaces the cache and answers with the new content, the      *)
(* configured status and the maintenance headers.                          *)
(***************************************************************************)
FileUsableAndNewer ==
    /\ fs.kind = "file"
    /\ fs.content # ""
    /\ fs.modTime > m.maintenanceFileLastMod

C37_FailureNotSticky ==
    [][(Idle /\ ~Idle' /\ ex'.branch = <<"file">> /\ FileUsableAndNewer) =>
          /\ ex'.loadErr = ""
          /\ ex'.reads = 1
          /\ m'.maintenanceFileContent = Bytes(fs.content)
          /\ m'.maintenanceFileLastMod = fs.modTime
          /\ ex'.rw.body = <<fs.content>>
          /\ ex'.rw.code = ConfiguredStatus
          /\ ex'.rw.commits = 1
          /\ ex'.rw.sent["Content-Type"] = <<ConfiguredContentType>>
          /\ ex'.rw.sent["Cache-Control"] = <<"no-cache, no-store, must-revalidate">>
          /\ ex'.rw.sent["Retry-After"] = <<"3600">>
          /\ ex'.rw.sent["X-Maintenance-Mode"] = <<"true">>]_vars

\* an earlier request failed to reload; the file is usable again and this
\* request has reloaded it and served version 2
C37_Witness ==
    /\ Called
    /\ ex.afterFailure
    /\ ex.branch = <<"file">>
    /\ ex.loadErr = ""
    /\ ex.reads = 1
    /\ ex.rw.body = <<"<html>version 2</html>">>
    /\ m.maintenanceFileContent = Bytes("<html>version 2</html>")
    /\ m.maintenanceFileLastMod = 2

(***************************************************************************)
(* C38: in every maintenance branch (file success, file failure, inline,   *)
(* proxy success, proxy error handler) the headers the middleware sets are *)
(* on the response when the status line is committed: the response is      *)
(* committed once, by a WriteHeader call, the header map at the end of the *)
(* call is the one that was sent, and the sent headers carry Retry-After   *)
(* and X-Maintenance-Mode: true.                                           *)
(***************************************************************************)
C38_HeadersBeforeCommit ==
    (Called /\ ex.maintCalls >= 1) =>
        /\ ex.rw.commits = 1
        /\ Len(ex.rw.calls) >= 1
        /\ ex.rw.calls[1][1] = "WriteHeader"
        /\ ex.rw.header = ex.rw.sent
        /\ Len(ex.rw.sent["Retry-After"]) >= 1
        /\ ex.rw.sent["Retry-After"][1] = "3600"
        /\ Len(ex.rw.sent["X-Maintenance-Mode"]) >= 1
        /\ ex.rw.sent["X-Maintenance-Mode"][1] = "true"
        /\ (ex.branch = <<"inline">> \/ (ex.branch = <<"file">> /\ ex.loadErr = "")) =>
              /\ ex.rw.sent["Content-Type"] = <<ConfiguredContentType>>
              /\ ex.rw.sent["Cache-Control"] # <<>>
        /\ (ex.branch = <<"file">> /\ ex.loadErr # "") =>
              ex.rw.sent["X-Content-Type-Options"] = <<"nosniff">>

\* the proxy's error handler has answered: its headers were sent with the
\* status line and the header map has not changed since
C38_Witness ==
    /\ Called
    /\ ex.branch = <<"proxy">>
    /\ backend.kind = "error"
    /\ ex.rw.calls[1] = <<"WriteHeader", ConfiguredStatus>>
    /\ ex.rw.sent["X-Maintenance-Mode"] = <<"true">>
    /\ ex.rw.header = ex.rw.sent

(***************************************************************************)
(* C39: what New validates does not depend on the enabled flag.  New on a  *)
(* configuration and New on the same configuration with the flag inverted  *)
(* fail or succeed alike, with the same error, and build the same instance *)
(* but for the flag.  With enabled = false New still fails when no content *)
(* source is given, when the maintenance file cannot be loaded and when    *)
(* the service address is invalid, and a handler in file mode has its      *)
(* cache filled by the initial load.                                       *)
(***************************************************************************)
Flipped == [cfg EXCEPT !.Enabled = ~cfg.Enabled]

C39_ValidationIgnoresEnabled ==
    /\ [][(phase = "config" /\ phase' # "config") =>
            LET r == NewHandler(Flipped, fs)
            IN /\ r.nil <=> phase' = "failed"
               /\ r.err = newErr'
               /\ ~r.nil => r.m = [m' EXCEPT !.enabled = ~cfg.Enabled]]_vars
    /\ []((phase # "config" /\ ~cfg.Enabled) =>
            /\ NumSources = 0 => phase = "failed"
            /\ (RemoteMode /\ ~HasSchemeAndHost(cfg.MaintenanceService)) => phase = "failed"
            /\ phase = "failed" => newErr # ""
            /\ (phase = "serving" /\ FileMode) =>
                  /\ m.maintenanceFileContent # Nil
                  /\ m.maintenanceFileLastMod > 0
                  /\ ~m.enabled)

\* maintenance is switched off, the file is missing, and New has failed
C39_Witness ==
    /\ ~cfg.Enabled
    /\ FileMode
    /\ fs.kind = "missing"
    /\ phase = "failed"
    /\ Contains(newErr, "failed to load maintenance file")

====
